---- MODULE Spec2Model ----
(***************************************************************************)
(* Model of src/core/connection_handle.cxx: the blocking call bridge, the  *)
(* connection lifecycle (construction, worker, teardown) and the option    *)
(* decoders of the operation facade.                                        *)
(***************************************************************************)
EXTENDS Integers, Sequences, FiniteSets, TLC

VARIABLES
    process,     \* "running" | "terminated" (std::terminate or a fault)
    hstate,      \* connection_handle: "none" | "alive" | "destroyed" | "failed"
    createErr,   \* core_error_info returned by create_connection_handle
    cluster_,    \* impl::cluster_: "none" (no impl) | "present" | "absent" | "released"
    work_guard,  \* whether the engine keeps ctx_ busy while it is idle
    worker,      \* impl::worker thread: "none" | "running" | "returned" | "dtor" | "exited" | "joined"
    handleRef,   \* connection_handle::impl_ owns the impl
    workerRef,   \* the worker's lambda owns the impl (self)
    td,          \* position inside ~impl
    tdThread,    \* the thread that runs ~impl: "none" | "handle" | "worker"
    closeBarrier,\* the promise of ~impl: "none" | "unset" | "set"
    trace,       \* the teardown events, in the order they happened
    cpc,         \* caller thread -> "idle" | "waiting" | "returned"
    call,        \* caller thread -> the bridged call it is in
    ncalls,      \* caller thread -> number of calls begun
    nextReq,     \* next request id
    engine,      \* requests the engine holds, completion not yet delivered
    subCount,    \* request id -> number of engine submissions made for it
    barrier,     \* promise slot -> delivered response or NoResp
    delivered,   \* request id -> the code the engine delivered, "" before
    ret,         \* caller thread -> what its last bridged call returned
    fop,         \* facade: operation being executed
    fopts,       \* facade: the option bag (and positional arguments)
    fpc,         \* facade: "idle" | "submitted" | "returned" | "fault"
    freq,        \* facade: the request as decoded
    ferr,        \* facade: the core_error_info returned
    freads,      \* facade: option keys looked up, in order
    fsub,        \* facade: engine submissions made by the current operation
    fresp,       \* facade: engine response of the current operation
    fid,         \* facade: the document id of a key-value operation
    fout,        \* facade: return_value of the current operation
    fctx,        \* facade: the error context of the error returned
    bctx,        \* the engine's error context handed to a builder
    bout,        \* what the builder made of it
    vpc,         \* cluster_version: "idle" | "describe" | "bucket_open" | "returned"
    vbucket,     \* cluster_version: the bucket name the caller passed
    vname,       \* cluster_version: bucket_name of the invocation that is running
    vlog,        \* cluster_version: the engine requests of the call with their answers
    vret,        \* cluster_version: the version returned
    vcalls,      \* cluster_version: calls begun
    copts,       \* create_connection_handle: the cluster options it was called with
    corigin      \* create_connection_handle: what the validation made of them

lifeVars == <<process, hstate, createErr, cluster_, work_guard, worker, handleRef,
              workerRef, td, tdThread, closeBarrier, trace>>
callVars == <<cpc, call, ncalls, nextReq, engine, subCount, barrier, delivered, ret>>
builderVars == <<bctx, bout>>
versionVars == <<vpc, vbucket, vname, vlog, vret, vcalls>>
createVars == <<copts, corigin>>
facadeVars == <<fop, fopts, fpc, freq, ferr, freads, fsub, fresp, fid, fout, fctx, builderVars,
               versionVars, createVars>>
vars == <<lifeVars, callVars, facadeVars>>

----------------------------------------------------------------------------
(* Bounds *)

\* bridged calls each caller thread begins
MaxCalls == 1

\* entries of a cluster option bag besides the authenticator
MaxEntries == 2

Callers == {"t1", "t2"}

MaxReq == Cardinality(Callers) * MaxCalls

\* the most keys an option bag holds
MaxPresent == 2

\* retry reasons in the set of an error context handed to a builder
MaxReasons == 2

\* retry attempts an error context records
MaxAttempts == 1

\* cluster_version calls made on a connection
MaxVersionCalls == 2

----------------------------------------------------------------------------
(* The dynamic value model (zval) *)

ZV(t, n, s, a) == [t |-> t, n |-> n, s |-> s, a |-> a]
nullptr == ZV("nullptr", 0, "", <<>>)
ZNull == ZV("null", 0, "", <<>>)
ZTrue == ZV("true", 0, "", <<>>)
ZFalse == ZV("false", 0, "", <<>>)
ZDouble == ZV("double", 0, "", <<>>)
ZLong(n) == ZV("long", n, "", <<>>)
ZStr(s) == ZV("string", 0, s, <<>>)
\* an array is a sequence of entries [k |-> key, v |-> value]; list items have key ""
ZArr(a) == ZV("array", 0, "", a)
KV(k, v) == [k |-> k, v |-> v]

RECURSIVE FindFrom(_, _, _)
FindFrom(a, key, i) ==
    IF i > Len(a) THEN nullptr
    ELSE IF a[i].k = key THEN a[i].v
    ELSE FindFrom(a, key, i + 1)

\* zend_symtable_str_find(Z_ARRVAL_P(arr), key)
zend_symtable_str_find(arr, key) == FindFrom(arr.a, key, 1)

----------------------------------------------------------------------------
(* core_error_info *)

\* ec: the error code; msg: the message as <<text, the name it mentions>>; origin:
\* "validation" for an error made by this layer before any engine call, "engine" for
\* one taken from a response; at: the option key whose decoding returned the error
CoreErr(ec, msg, origin, at) == [ec |-> ec, msg |-> msg, origin |-> origin, at |-> at]
NoErr == CoreErr("success", <<"", "">>, "none", "")
InvalidArgument(msg) == CoreErr("invalid_argument", msg, "validation", msg[2])
InvalidArgumentAt(msg, at) == CoreErr("invalid_argument", msg, "validation", at)

----------------------------------------------------------------------------
(* Cluster options: apply_options and extract_credentials *)

DurationKeys ==
    {"analyticsTimeout", "bootstrapTimeout", "connectTimeout", "dnsSrvTimeout",
     "keyValueDurableTimeout", "keyValueTimeout", "managementTimeout", "queryTimeout",
     "resolveTimeout", "searchTimeout", "viewTimeout", "configIdleRedialTimeout",
     "configPollFloor", "configPollInterval", "idleHttpConnectionTimeout",
     "tcpKeepAliveInterval"}
NumberKeys == {"maxHttpConnections"}
BooleanKeys ==
    {"enableClustermapNotification", "enableCompression", "enableDnsSrv", "enableMetrics",
     "enableMutationTokens", "enableTcpKeepAlive", "enableTls", "enableTracing",
     "enableUnorderedExecution", "forceIpv4", "showQueries"}
StringKeys == {"network", "trustCertificate", "userAgentExtra"}
TracerNumberKeys == {"orphanedSampleSize", "thresholdSampleSize"}
TracerDurationKeys ==
    {"orphanedEmitInterval", "thresholdEmitInterval", "analyticsThreshold",
     "eventingThreshold", "keyValueThreshold", "managementThreshold", "queryThreshold",
     "searchThreshold", "viewThreshold"}
MeterDurationKeys == {"emitInterval"}

\* the outcome of one loop iteration: an error (return) or the assignments made
Iter(err, set) == [err |-> err, set |-> set]
Assign(field, v) == <<[field |-> field, v |-> v]>>

ASSIGN_DURATION_OPTION(prefix, key, value) ==
    IF value.t = "null" THEN Iter(NoErr, <<>>)
    ELSE IF value.t # "long"
        THEN Iter(InvalidArgument(<<"expected duration as a number for", key>>), <<>>)
    ELSE IF value.n < 0
        THEN Iter(InvalidArgument(<<"expected duration as a positive number for", key>>), <<>>)
    ELSE Iter(NoErr, Assign(<<prefix, key>>, value))

ASSIGN_NUMBER_OPTION(prefix, key, value) ==
    IF value.t = "null" THEN Iter(NoErr, <<>>)
    ELSE IF value.t # "long"
        THEN Iter(InvalidArgument(<<"expected number for", key>>), <<>>)
    ELSE Iter(NoErr, Assign(<<prefix, key>>, value))

ASSIGN_BOOLEAN_OPTION(prefix, key, value) ==
    IF value.t = "null" THEN Iter(NoErr, <<>>)
    ELSE IF value.t \in {"true", "false"} THEN Iter(NoErr, Assign(<<prefix, key>>, value))
    ELSE Iter(InvalidArgument(<<"expected boolean for", key>>), <<>>)

ASSIGN_STRING_OPTION(prefix, key, value) ==
    IF value.t = "null" THEN Iter(NoErr, <<>>)
    ELSE IF value.t # "string"
        THEN Iter(InvalidArgument(<<"expected string for", key>>), <<>>)
    ELSE IF value.s = ""
        THEN Iter(InvalidArgument(<<"expected non-empty string for", key>>), <<>>)
    ELSE Iter(NoErr, Assign(<<prefix, key>>, value))

\* ZEND_HASH_FOREACH_STR_KEY_VAL hands out a null key for an entry that has an integer
\* key (the entries of a list); ZSTR_VAL(key) and ZSTR_LEN(key) then read through it
NullKey == ""
Crash == CoreErr("fault", <<"", "">>, "none", "")

\* the body of an inner loop: the macros applied to one nested entry
NestedEntry(prefix, durations, numbers, k, v) ==
    IF k = NullKey THEN Iter(Crash, <<>>)
    ELSE IF k \in numbers THEN ASSIGN_NUMBER_OPTION(prefix, k, v)
    ELSE IF k \in durations THEN ASSIGN_DURATION_OPTION(prefix, k, v)
    ELSE Iter(NoErr, <<>>)

RECURSIVE NestedLoop(_, _, _, _, _, _)
NestedLoop(prefix, durations, numbers, a, i, set) ==
    IF i > Len(a) THEN Iter(NoErr, set)
    ELSE LET r == NestedEntry(prefix, durations, numbers, a[i].k, a[i].v)
         IN  IF r.err.ec # "success" THEN Iter(r.err, set)
             ELSE NestedLoop(prefix, durations, numbers, a, i + 1, set \o r.set)

\* the body of the outer loop of apply_options for one entry
OptionEntry(key, value) ==
    IF key = NullKey THEN Iter(Crash, <<>>)
    ELSE IF key \in DurationKeys THEN ASSIGN_DURATION_OPTION("options", key, value)
    ELSE IF key \in NumberKeys THEN ASSIGN_NUMBER_OPTION("options", key, value)
    ELSE IF key \in BooleanKeys THEN ASSIGN_BOOLEAN_OPTION("options", key, value)
    ELSE IF key \in StringKeys THEN ASSIGN_STRING_OPTION("options", key, value)
    ELSE IF key = "tlsVerify" THEN
        IF value.t = "null" THEN Iter(NoErr, <<>>)
        ELSE IF value.t # "string"
            THEN Iter(InvalidArgument(<<"expected string for", key>>), <<>>)
        ELSE IF value.s \in {"peer", "none"} THEN Iter(NoErr, Assign(<<"options", key>>, value))
        ELSE Iter(InvalidArgument(<<"expected mode for TLS verification", key>>), <<>>)
    ELSE IF key = "thresholdLoggingTracerOptions" THEN
        IF value.t = "null" THEN Iter(NoErr, <<>>)
        ELSE IF value.t # "array"
            THEN Iter(InvalidArgument(<<"expected array for tracer options", key>>), <<>>)
        ELSE NestedLoop("tracing_options", TracerDurationKeys, TracerNumberKeys,
                        value.a, 1, <<>>)
    ELSE IF key = "loggingMeterOptions" THEN
        IF value.t = "null" THEN Iter(NoErr, <<>>)
        ELSE IF value.t # "array"
            THEN Iter(InvalidArgument(<<"expected array for meter options", key>>), <<>>)
        ELSE NestedLoop("metrics_options", MeterDurationKeys, {}, value.a, 1, <<>>)
    ELSE Iter(NoErr, <<>>)

RECURSIVE OptionLoop(_, _, _)
OptionLoop(a, i, set) ==
    IF i > Len(a) THEN Iter(NoErr, set)
    ELSE LET r == OptionEntry(a[i].k, a[i].v)
         IN  IF r.err.ec # "success" THEN Iter(r.err, set \o r.set)
             ELSE OptionLoop(a, i + 1, set \o r.set)

\* apply_options(connstr, options): the error, and the fields of connstr.options written
apply_options(options) ==
    IF options.t # "array"
        THEN Iter(InvalidArgument(<<"expected array for cluster options", "">>), <<>>)
    ELSE OptionLoop(options.a, 1, <<>>)

RECURSIVE Mechanisms(_, _)
Mechanisms(a, i) ==
    IF i > Len(a) THEN <<>>
    ELSE (IF a[i].v.t = "string" THEN <<a[i].v.s>> ELSE <<>>) \o Mechanisms(a, i + 1)

Credentials(shape, a, b, mechs) == [shape |-> shape, first |-> a, second |-> b, mechs |-> mechs]
NoCredentials == Credentials("none", "", "", <<"default">>)
CredResult(err, cred) == [err |-> err, cred |-> cred]

\* extract_credentials(credentials, options)
extract_credentials(options) ==
    IF options.t # "array"
        THEN CredResult(InvalidArgument(<<"expected array for cluster options", "">>), NoCredentials)
    ELSE LET auth == zend_symtable_str_find(options, "authenticator") IN
    IF auth.t # "array"
        THEN CredResult(InvalidArgument(<<"missing authenticator", "">>), NoCredentials)
    ELSE LET auth_type == zend_symtable_str_find(auth, "type") IN
    IF auth_type.t # "string"
        THEN CredResult(InvalidArgument(<<"unexpected type of the authenticator", "">>), NoCredentials)
    ELSE IF auth_type.s = "password" THEN
        LET username == zend_symtable_str_find(auth, "username")
            password == zend_symtable_str_find(auth, "password")
            mechs == zend_symtable_str_find(auth, "allowedSaslMechanisms")
        IN  IF username.t # "string"
                THEN CredResult(InvalidArgument(<<"expected to be a string in the authenticator", "username">>),
                                NoCredentials)
            ELSE IF password.t # "string"
                THEN CredResult(InvalidArgument(<<"expected to be a string in the authenticator", "password">>),
                                NoCredentials)
            ELSE IF mechs.t \notin {"nullptr", "null"} THEN
                IF mechs.t # "array"
                    THEN CredResult(InvalidArgument(<<"expected to be an array in the authenticator",
                                                      "allowedSaslMechanisms">>),
                                    Credentials("password", username.s, password.s, <<"default">>))
                ELSE CredResult(NoErr, Credentials("password", username.s, password.s,
                                                   Mechanisms(mechs.a, 1)))
            ELSE CredResult(NoErr, Credentials("password", username.s, password.s, <<"default">>))
    ELSE IF auth_type.s = "certificate" THEN
        LET certificate_path == zend_symtable_str_find(auth, "certificatePath")
            key_path == zend_symtable_str_find(auth, "keyPath")
        IN  IF certificate_path.t # "string"
                THEN CredResult(InvalidArgument(<<"expected to be a string in the authenticator",
                                                  "certificatePath">>), NoCredentials)
            ELSE IF key_path.t # "string"
                THEN CredResult(InvalidArgument(<<"expected to be a string in the authenticator", "keyPath">>),
                                NoCredentials)
            ELSE CredResult(NoErr, Credentials("certificate", certificate_path.s, key_path.s,
                                               <<"default">>))
    ELSE CredResult(InvalidArgument(<<"unknown type of the authenticator", auth_type.s>>), NoCredentials)

\* the outcome of create_connection_handle before the handle is constructed:
\* the first error of parse_connection_string, apply_options, extract_credentials
CreateError(connstr_error, options) ==
    IF connstr_error THEN CoreErr("parsing_failure", <<"connstr", "">>, "validation", "")
    ELSE IF apply_options(options).err.ec # "success" THEN apply_options(options).err
    ELSE extract_credentials(options).err

----------------------------------------------------------------------------
(* Per-operation option decoding: cb_assign_timeout .. cb_get_integer *)

\* the state of a decoding: the request so far, the error returned (if any), the
\* option keys looked up so far, and whether the code faulted (undefined behaviour)
Dec(req, err, reads, fault) == [req |-> req, err |-> err, reads |-> reads, fault |-> fault]
Look(d, key) == [d EXCEPT !.reads = Append(@, key)]
Fail(d, err) == [d EXCEPT !.err = err]
Put(d, field, v) == [d EXCEPT !.req = [@ EXCEPT ![field] = v]]
Fault(d) == [d EXCEPT !.fault = TRUE]

\* a request field that no option has written
Default == ZV("default", 0, "", <<>>)
Enum(name) == ZV("enum", 0, name, <<>>)

IsNull(z) == z.t \in {"nullptr", "null"}

\* the decoding went on regardless of an error
StopNever(d) == d.fault

\* if (auto e = ...; e.ec) { return e; }
Stop(d) == d.err.ec # "success" \/ d.fault

cb_assign_timeout(d, options) ==
    IF IsNull(options) THEN d
    ELSE IF options.t # "array"
        THEN Fail(d, InvalidArgumentAt(<<"expected array for options argument", "">>, "options"))
    ELSE LET value == zend_symtable_str_find(options, "timeoutMilliseconds")
             d1 == Look(d, "timeoutMilliseconds")
         IN  IF IsNull(value) THEN d1
             ELSE IF value.t # "long"
                 THEN Fail(d1, InvalidArgument(<<"expected to be a number in the options",
                                                 "timeoutMilliseconds">>))
             ELSE Put(d1, "timeout", value)

DurabilityLevels == {"none", "majority", "majorityAndPersistToActive", "persistToMajority"}

DurabilityEnumerator(s) ==
    CASE s = "none" -> Enum("none")
      [] s = "majority" -> Enum("majority")
      [] s = "majorityAndPersistToActive" -> Enum("majority_and_persist_to_active")
      [] s = "persistToMajority" -> Enum("persist_to_majority")

\* a variant that reads durabilityTimeoutSeconds whatever the level is
cb_assign_durability_ungated(d, options) ==
    IF IsNull(options) THEN d
    ELSE IF options.t # "array"
        THEN Fail(d, InvalidArgumentAt(<<"expected array for options argument", "">>, "options"))
    ELSE LET value == zend_symtable_str_find(options, "durabilityLevel")
             d1 == Look(d, "durabilityLevel")
         IN
    IF IsNull(value) THEN d1
    ELSE IF value.t # "string"
        THEN Fail(d1, InvalidArgument(<<"expected to be a string in the authenticator",
                                        "durabilityLevel">>))
    ELSE IF value.s \notin DurabilityLevels
        THEN Fail(d1, InvalidArgumentAt(<<"unknown durabilityLevel", value.s>>, "durabilityLevel"))
    ELSE LET d2 == Put(d1, "durability_level", DurabilityEnumerator(value.s)) IN
    IF FALSE THEN d2
    ELSE LET timeout == zend_symtable_str_find(options, "durabilityTimeoutSeconds")
             d3 == Look(d2, "durabilityTimeoutSeconds")
         IN  IF IsNull(timeout) THEN d3
             ELSE IF timeout.t # "long"
                 THEN Fail(d3, InvalidArgument(<<"expected to be a number in the options",
                                                 "durabilityTimeoutSeconds">>))
             ELSE Put(d3, "durability_timeout", timeout)

cb_assign_durability(d, options) ==
    IF IsNull(options) THEN d
    ELSE IF options.t # "array"
        THEN Fail(d, InvalidArgumentAt(<<"expected array for options argument", "">>, "options"))
    ELSE LET value == zend_symtable_str_find(options, "durabilityLevel")
             d1 == Look(d, "durabilityLevel")
         IN
    IF IsNull(value) THEN d1
    ELSE IF value.t # "string"
        THEN Fail(d1, InvalidArgument(<<"expected to be a string in the authenticator",
                                        "durabilityLevel">>))
    ELSE IF value.s \notin DurabilityLevels
        THEN Fail(d1, InvalidArgumentAt(<<"unknown durabilityLevel", value.s>>, "durabilityLevel"))
    ELSE LET d2 == Put(d1, "durability_level", DurabilityEnumerator(value.s)) IN
    IF d2.req["durability_level"] = Enum("none") THEN d2
    ELSE LET timeout == zend_symtable_str_find(options, "durabilityTimeoutSeconds")
             d3 == Look(d2, "durabilityTimeoutSeconds")
         IN  IF IsNull(timeout) THEN d3
             ELSE IF timeout.t # "long"
                 THEN Fail(d3, InvalidArgument(<<"expected to be a number in the options",
                                                 "durabilityTimeoutSeconds">>))
             ELSE Put(d3, "durability_timeout", timeout)

cb_assign_boolean(d, field, options, name) ==
    IF IsNull(options) THEN d
    ELSE IF options.t # "array"
        THEN Fail(d, InvalidArgumentAt(<<"expected array for options argument", "">>, "options"))
    ELSE LET value == zend_symtable_str_find(options, name)
             d1 == Look(d, name)
         IN  IF IsNull(value) THEN d1
             ELSE IF value.t \in {"true", "false"} THEN Put(d1, field, value)
             ELSE Fail(d1, InvalidArgument(<<"expected to be a boolean value in the options", name>>))

\* the value is stored whatever its type
cb_assign_integer_untyped(d, field, options, name) ==
    IF IsNull(options) \/ options.t # "array" THEN d
    ELSE LET value == zend_symtable_str_find(options, name) IN
         IF IsNull(value) THEN Look(d, name) ELSE Put(Look(d, name), field, value)

cb_assign_integer(d, field, options, name) ==
    IF IsNull(options) THEN d
    ELSE IF options.t # "array"
        THEN Fail(d, InvalidArgumentAt(<<"expected array for options argument", "">>, "options"))
    ELSE LET value == zend_symtable_str_find(options, name)
             d1 == Look(d, name)
         IN  IF IsNull(value) THEN d1
             ELSE IF value.t # "long"
                 THEN Fail(d1, InvalidArgument(<<"expected to be a integer value in the options", name>>))
             ELSE Put(d1, field, value)

cb_assign_string(d, field, options, name) ==
    IF IsNull(options) THEN d
    ELSE IF options.t # "array"
        THEN Fail(d, InvalidArgumentAt(<<"expected array for options argument", "">>, "options"))
    ELSE LET value == zend_symtable_str_find(options, name)
             d1 == Look(d, name)
         IN  IF IsNull(value) THEN d1
             ELSE IF value.t # "string"
                 THEN Fail(d1, InvalidArgument(<<"expected to be a string value in the options", name>>))
             ELSE Put(d1, field, value)

\* the items of a vector field; a field never written holds none
Items(v) == IF v.t = "array" THEN v.a ELSE <<>>

\* the loop of cb_assign_vector_of_strings: items are appended until one is no string
RECURSIVE StringsLoop(_, _, _, _, _)
StringsLoop(d, field, a, i, name) ==
    IF i > Len(a) THEN d
    ELSE IF a[i].v.t # "string"
        THEN Fail(d, InvalidArgument(<<"expected option to be an array of strings", name>>))
    ELSE StringsLoop(Put(d, field, ZArr(Append(Items(d.req[field]), KV("", a[i].v)))),
                     field, a, i + 1, name)

\* the shape test left out: a value that is no array is passed over
VectorShapeIgnored(value) == FALSE

\* cb_assign_vector_of_strings: if (Z_TYPE_P(value) != IS_ARRAY)
VectorShapeWrong(value) == value.t # "array"

cb_assign_vector_of_strings(d, field, options, name) ==
    IF IsNull(options) THEN d
    ELSE IF options.t # "array"
        THEN Fail(d, InvalidArgumentAt(<<"expected array for options", "">>, "options"))
    ELSE LET value == zend_symtable_str_find(options, name)
             d1 == Look(d, name)
         IN  IF IsNull(value) THEN d1
             ELSE IF VectorShapeWrong(value)
                 THEN Fail(d1, InvalidArgument(<<"expected array for options argument", name>>))
             ELSE StringsLoop(d1, field, Items(value), 1, name)

\* a zend_long converted to an unsigned type of the given width: a negative n is the
\* number n + 2^bits
Unsigned(n, bits) == ZV("unsigned", n, IF n < 0 THEN "2^" \o ToString(bits) \o ToString(n) ELSE "", <<>>)
Positive(u) == u.s # "" \/ u.n > 0
Is(u, k) == u.s = "" /\ u.n = k

\* fmt::format("{}", u)
Shown(u) == IF u.s # "" THEN u.s ELSE ToString(u.n)

\* cb_get_integer<uint64_t>: the decoding state and the integer (0 when there is none)
Got(d, v) == [d |-> d, v |-> v]

cb_get_integer(d, options, name) ==
    IF IsNull(options) THEN Got(d, Unsigned(0, 64))
    ELSE IF options.t # "array"
        THEN Got(Fail(d, InvalidArgumentAt(<<"expected array for options argument", "">>, "options")),
                 Unsigned(0, 64))
    ELSE LET value == zend_symtable_str_find(options, name)
             d1 == Look(d, name)
         IN  IF IsNull(value) THEN Got(d1, Unsigned(0, 64))
             ELSE IF value.t # "long"
                 THEN Got(Fail(d1, InvalidArgument(<<"expected to be a integer value in the options", name>>)),
                          Unsigned(0, 64))
             ELSE Got(d1, Unsigned(value.n, 64))

\* switch over an integer code: the enumerator of a listed code; for any other code an
\* error, unless the default case passes over a code that is not above 0 (lenient);
\* `what` is the name the message uses
EnumSwitch(g, field, codes, lenient, what, name) ==
    IF Stop(g.d) THEN g.d
    ELSE IF \E k \in DOMAIN codes : Is(g.v, k)
        THEN Put(g.d, field, Enum(codes[CHOOSE k \in DOMAIN codes : Is(g.v, k)]))
    ELSE IF lenient /\ ~Positive(g.v) THEN g.d
    ELSE Fail(g.d, InvalidArgumentAt(<<"invalid value used for " \o what, Shown(g.v)>>, name))

\* the string taken from an item without a test of its type: the bytes of a string item,
\* and for any other item whatever the value union holds
UncheckedString(item) == IF item.t = "string" THEN ZStr(item.s) ELSE ZV("garbage", 0, "", <<>>)

RECURSIVE UncheckedItems(_, _)
UncheckedItems(a, i) ==
    IF i > Len(a) THEN <<>>
    ELSE <<KV(a[i].k, UncheckedString(a[i].v))>> \o UncheckedItems(a, i + 1)

\* if (const zval* value = zend_symtable_str_find(Z_ARRVAL_P(options), name);
\*     value != nullptr && Z_TYPE_P(value) == IS_ARRAY) { ... request.field = params; }
\* options is dereferenced without a test
InlineArray(d, field, options, name) ==
    IF options.t # "array" THEN Fault(d)
    ELSE LET value == zend_symtable_str_find(options, name)
             d1 == Look(d, name)
         IN  IF value.t = "array" THEN Put(d1, field, ZArr(UncheckedItems(value.a, 1)))
             ELSE d1

\* one mutation token of consistentWith: its fields are read from options
TokenFields == <<[f |-> "partition_id", k |-> "partitionId", t |-> "long"],
                 [f |-> "partition_uuid", k |-> "partitionUuid", t |-> "long"],
                 [f |-> "sequence_number", k |-> "sequenceNumber", t |-> "long"],
                 [f |-> "bucket_name", k |-> "bucketName", t |-> "string"]>>

EmptyToken == [f \in {TokenFields[i].f : i \in 1..4} |-> Default]

\* the token fields are decoded into a scratch request, one field after the other
RECURSIVE TokenFrom(_, _, _)
TokenFrom(d, options, i) ==
    IF i > Len(TokenFields) \/ Stop(d) THEN d
    ELSE TokenFrom(IF TokenFields[i].t = "long"
                   THEN cb_assign_integer(d, TokenFields[i].f, options, TokenFields[i].k)
                   ELSE cb_assign_string(d, TokenFields[i].f, options, TokenFields[i].k),
                   options, i + 1)

RECURSIVE TokensLoop(_, _, _, _, _)
TokensLoop(d, options, a, i, vectors) ==
    IF i > Len(a) THEN Put(d, "mutation_state", ZArr(vectors))
    ELSE LET t == TokenFrom(Dec(EmptyToken, NoErr, d.reads, FALSE), options, 1) IN
         IF Stop(t) THEN [d EXCEPT !.err = t.err, !.reads = t.reads]
         ELSE TokensLoop([d EXCEPT !.reads = t.reads], options, a, i + 1,
                         Append(vectors, KV("", ZV("token", 0, "", <<KV("partition_id", t.req["partition_id"]),
                                                                      KV("partition_uuid", t.req["partition_uuid"]),
                                                                      KV("sequence_number", t.req["sequence_number"]),
                                                                      KV("bucket_name", t.req["bucket_name"])>>))))

ConsistentWith(d, options) ==
    IF options.t # "array" THEN Fault(d)
    ELSE LET value == zend_symtable_str_find(options, "consistentWith")
             d1 == Look(d, "consistentWith")
         IN  IF value.t = "array" THEN TokensLoop(d1, options, value.a, 1, <<>>)
             ELSE d1

----------------------------------------------------------------------------
(* The operations of connection_handle: each decodes its options into a request *)

Request(fields) == Dec([f \in fields |-> Default], NoErr, <<>>, FALSE)

\* the arguments of an operation: the option bag, and where the operation has them the
\* index definition and the name space
Args(options, index, name_space) == [options |-> options, index |-> index, name_space |-> name_space]

\* one statement of an operation's decoding: the helper h it calls, the request field f
\* it writes and the option key k it looks up; for a switch the codes it lists, whether
\* its default case passes over 0, and the name its message uses
S(h, f, k) == [h |-> h, f |-> f, k |-> k, codes |-> <<>>, lenient |-> TRUE, what |-> ""]
Sw(h, f, k, codes, lenient, what) ==
    [h |-> h, f |-> f, k |-> k, codes |-> codes, lenient |-> lenient, what |-> what]

\* a variant that makes the projected request whatever was asked for
GetShapeProjected(d) ==
    [d EXCEPT !.req = [shape |-> Enum("get_projected_request"), timeout |-> Default,
                       with_expiry |-> d.req["with_expiry"],
                       projections |-> d.req["projections"]]]

\* get_request when neither an expiry nor projections are asked for, else
\* get_projected_request carrying both
GetShape(d) ==
    IF d.req["with_expiry"] = ZFalse /\ Items(d.req["projections"]) = <<>>
    THEN [d EXCEPT !.req = [shape |-> Enum("get_request"), timeout |-> Default]]
    ELSE [d EXCEPT !.req = [shape |-> Enum("get_projected_request"), timeout |-> Default,
                            with_expiry |-> d.req["with_expiry"],
                            projections |-> d.req["projections"]]]

Step(d, s, in) ==
    CASE s.h = "timeout" -> cb_assign_timeout(d, in.options)
      [] s.h = "durability" -> cb_assign_durability(d, in.options)
      [] s.h = "boolean" -> cb_assign_boolean(d, s.f, in.options, s.k)
      [] s.h = "integer" -> cb_assign_integer(d, s.f, in.options, s.k)
      [] s.h = "string" -> cb_assign_string(d, s.f, in.options, s.k)
      [] s.h = "vector_of_strings" -> cb_assign_vector_of_strings(d, s.f, in.options, s.k)
      [] s.h = "get_integer" ->
            EnumSwitch(cb_get_integer(d, in.options, s.k), s.f, s.codes, s.lenient, s.what, s.k)
      [] s.h = "inline" -> InlineArray(d, s.f, in.options, s.k)
      [] s.h = "consistentWith" -> ConsistentWith(d, in.options)
      [] s.h = "name_space" ->
            EnumSwitch(Got(d, Unsigned(in.name_space, 32)), s.f, s.codes, s.lenient, s.what, s.k)
      [] s.h = "shape" -> GetShape(d)
      [] s.h = "index_string" -> cb_assign_string(d, s.f, in.index, s.k)

\* the statements in turn, each followed by if (e.ec) { return e; }
RECURSIVE Run(_, _, _, _)
Run(d, steps, i, in) ==
    IF i > Len(steps) \/ Stop(d) THEN d
    ELSE Run(Step(d, steps[i], in), steps, i + 1, in)

document_upsert(in) ==
    Run(Request({"timeout", "durability_level", "durability_timeout", "preserve_expiry", "expiry"}),
        <<S("timeout", "timeout", "timeoutMilliseconds"),
          S("durability", "durability_level", "durabilityLevel"),
          S("boolean", "preserve_expiry", "preserveExpiry"),
          S("integer", "expiry", "expiry")>>, 1, in)

document_get(in) ==
    Run([Request({"with_expiry", "projections"}) EXCEPT !.req["with_expiry"] = ZFalse,
                                                        !.req["projections"] = ZArr(<<>>)],
        <<S("boolean", "with_expiry", "withExpiry"),
          S("vector_of_strings", "projections", "projections"),
          S("shape", "shape", ""),
          S("timeout", "timeout", "timeoutMilliseconds")>>, 1, in)

document_exists(in) ==
    Run(Request({"timeout"}), <<S("timeout", "timeout", "timeoutMilliseconds")>>, 1, in)

QueryScanConsistency == (1 :> "not_bounded") @@ (2 :> "request_plus")
QueryProfile == (1 :> "off") @@ (2 :> "phases") @@ (3 :> "timings")

query(in) ==
    Run(Request({"timeout", "scan_consistency", "scan_cap", "pipeline_cap", "pipeline_batch",
                 "max_parallelism", "profile", "readonly", "flex_index", "adhoc",
                 "positional_parameters", "named_parameters", "raw", "mutation_state",
                 "client_context_id", "metrics", "preserve_expiry", "scope_name", "bucket_name"}),
        <<S("timeout", "timeout", "timeoutMilliseconds"),
          Sw("get_integer", "scan_consistency", "scanConsistency", QueryScanConsistency, TRUE,
             "scan consistency"),
          S("integer", "scan_cap", "scanCap"),
          S("integer", "pipeline_cap", "pipelineCap"),
          S("integer", "pipeline_batch", "pipelineBatch"),
          S("integer", "max_parallelism", "maxParallelism"),
          Sw("get_integer", "profile", "profile", QueryProfile, TRUE, "profile"),
          S("boolean", "readonly", "readonly"),
          S("boolean", "flex_index", "flexIndex"),
          S("boolean", "adhoc", "adHoc"),
          S("inline", "positional_parameters", "positionalParameters"),
          S("inline", "named_parameters", "namedParameters"),
          S("inline", "raw", "raw"),
          S("consistentWith", "mutation_state", "consistentWith"),
          S("string", "client_context_id", "clientContextId"),
          S("boolean", "metrics", "metrics"),
          S("boolean", "preserve_expiry", "preserveExpiry"),
          S("string", "scope_name", "scopeName"),
          S("string", "bucket_name", "bucketName")>>, 1, in)

AnalyticsScanConsistency == (1 :> "not_bounded") @@ (2 :> "request_plus")

analytics_query(in) ==
    Run(Request({"timeout", "scan_consistency", "readonly", "priority", "positional_parameters",
                 "named_parameters", "raw", "client_context_id", "scope_name", "bucket_name"}),
        <<S("timeout", "timeout", "timeoutMilliseconds"),
          Sw("get_integer", "scan_consistency", "scanConsistency", AnalyticsScanConsistency, TRUE,
             "scan consistency"),
          S("boolean", "readonly", "readonly"),
          S("boolean", "priority", "priority"),
          S("inline", "positional_parameters", "positionalParameters"),
          S("inline", "named_parameters", "namedParameters"),
          S("inline", "raw", "raw"),
          S("string", "client_context_id", "clientContextId"),
          S("string", "scope_name", "scopeName"),
          S("string", "bucket_name", "bucketName")>>, 1, in)

HighlightStyle == (1 :> "ansi") @@ (2 :> "html")

search_query(in) ==
    Run(Request({"timeout", "limit", "skip", "explain", "disable_scoring", "include_locations",
                 "highlight_fields", "fields", "collections", "sort_specs", "highlight_style",
                 "mutation_state", "raw", "facets", "client_context_id"}),
        <<S("timeout", "timeout", "timeoutMilliseconds"),
          S("integer", "limit", "limit"),
          S("integer", "skip", "skip"),
          S("boolean", "explain", "explain"),
          S("boolean", "disable_scoring", "disableScoring"),
          S("boolean", "include_locations", "includeLocations"),
          S("vector_of_strings", "highlight_fields", "highlightFields"),
          S("vector_of_strings", "fields", "fields"),
          S("vector_of_strings", "collections", "collections"),
          S("vector_of_strings", "sort_specs", "sortSpecs"),
          Sw("get_integer", "highlight_style", "highlightStyle", HighlightStyle, TRUE,
             "highlight style"),
          S("consistentWith", "mutation_state", "consistentWith"),
          S("inline", "raw", "raw"),
          S("inline", "facets", "facets"),
          S("string", "client_context_id", "clientContextId")>>, 1, in)

NameSpaces == (1 :> "development") @@ (2 :> "production")
ViewScanConsistency == (1 :> "not_bounded") @@ (2 :> "request_plus") @@ (3 :> "update_after")
SortOrder == (0 :> "ascending") @@ (1 :> "descending")

view_query(in) ==
    Run(Request({"name_space", "timeout", "consistency", "keys", "order", "reduce", "group",
                 "group_level", "limit", "skip", "key", "start_key", "end_key",
                 "start_key_doc_id", "end_key_doc_id", "inclusive_end", "debug"}),
        <<Sw("name_space", "name_space", "name_space", NameSpaces, FALSE, "namespace"),
          S("timeout", "timeout", "timeoutMilliseconds"),
          Sw("get_integer", "consistency", "scanConsistency", ViewScanConsistency, TRUE,
             "scan consistency"),
          S("inline", "keys", "keys"),
          Sw("get_integer", "order", "order", SortOrder, FALSE, "order"),
          S("boolean", "reduce", "reduce"),
          S("boolean", "group", "group"),
          S("integer", "group_level", "groupLevel"),
          S("integer", "limit", "limit"),
          S("boolean", "skip", "skip"),
          S("string", "key", "key"),
          S("string", "start_key", "startKey"),
          S("string", "end_key", "endKey"),
          S("string", "start_key_doc_id", "startKeyDocId"),
          S("string", "end_key_doc_id", "endKeyDocId"),
          S("boolean", "inclusive_end", "inclusiveEnd"),
          S("boolean", "debug", "debug")>>, 1, in)

search_index_upsert(in) ==
    Run(Request({"name", "type", "uuid", "params_json", "source_uuid", "source_name",
                 "source_type", "source_params_json", "timeout"}),
        <<S("index_string", "name", "name"),
          S("index_string", "type", "type"),
          S("index_string", "uuid", "uuid"),
          S("index_string", "params_json", "params"),
          S("index_string", "source_uuid", "sourceUuid"),
          S("index_string", "source_name", "sourceName"),
          S("index_string", "source_type", "sourceType"),
          S("index_string", "source_params_json", "sourceParams"),
          S("timeout", "timeout", "timeoutMilliseconds")>>, 1, in)

Operations == {"document_upsert", "document_get", "document_exists", "query", "analytics_query",
               "search_query", "view_query", "search_index_upsert"}

Decode(op, in) ==
    CASE op = "document_upsert" -> document_upsert(in)
      [] op = "document_get" -> document_get(in)
      [] op = "document_exists" -> document_exists(in)
      [] op = "query" -> query(in)
      [] op = "analytics_query" -> analytics_query(in)
      [] op = "search_query" -> search_query(in)
      [] op = "view_query" -> view_query(in)
      [] op = "search_index_upsert" -> search_index_upsert(in)

\* the bridged call an operation makes once its request is decoded
ExecuteKind(op) ==
    CASE op \in {"document_upsert", "document_get", "document_exists"} -> "key_value_execute"
      [] OTHER -> op

----------------------------------------------------------------------------
(* Connection lifecycle: create_connection_handle, impl::start, ~impl *)

\* option values handed to create_connection_handle
PasswordAuth == ZArr(<<KV("type", ZStr("password")), KV("username", ZStr("u")),
                       KV("password", ZStr("p"))>>)
CertificateAuth == ZArr(<<KV("type", ZStr("certificate")), KV("certificatePath", ZStr("c")),
                          KV("keyPath", ZStr("k"))>>)
ClusterBags ==
    {nullptr, ZStr("x"),
     ZArr(<<>>),
     ZArr(<<KV("authenticator", PasswordAuth)>>),
     ZArr(<<KV("authenticator", CertificateAuth)>>),
     ZArr(<<KV("authenticator", ZArr(<<KV("type", ZStr("password")), KV("username", ZLong(1))>>))>>),
     ZArr(<<KV("authenticator", ZArr(<<KV("type", ZStr("token"))>>))>>),
     ZArr(<<KV("queryTimeout", ZLong(-1)), KV("authenticator", PasswordAuth)>>),
     ZArr(<<KV("queryTimeout", ZLong(75)), KV("enableTls", ZTrue), KV("authenticator", PasswordAuth)>>),
     ZArr(<<KV("authenticator", PasswordAuth), KV("network", ZStr(""))>>),
     ZArr(<<KV("tlsVerify", ZStr("all")), KV("authenticator", PasswordAuth)>>)}

\* whether the worker's lambda keeps the impl alive (self = shared_from_this())
WorkerOwnsImpl == TRUE

Running == process = "running"

\* create_connection_handle: the validation, then new connection_handle(origin),
\* whose constructor makes the impl (and its cluster_) and calls impl_->start()
Construct(e, created, guard) ==
    IF e = Crash
    THEN /\ process' = "terminated"
         /\ UNCHANGED <<hstate, createErr, cluster_, work_guard, worker, handleRef, workerRef>>
    ELSE IF e.ec # "success"
    THEN /\ hstate' = "failed"
         /\ createErr' = e
         /\ UNCHANGED <<process, cluster_, work_guard, worker, handleRef, workerRef>>
    ELSE /\ hstate' = "alive"
         /\ createErr' = NoErr
         /\ cluster_' = IF created THEN "present" ELSE "absent"
         /\ work_guard' = (created /\ guard)
         /\ handleRef' = TRUE
         /\ worker' = "running"
         /\ workerRef' = WorkerOwnsImpl
         /\ UNCHANGED process

Create(connstr_error, options, created, guard) ==
    /\ Running
    /\ hstate = "none"
    /\ Construct(CreateError(connstr_error, options), created, guard)
    /\ UNCHANGED <<td, tdThread, closeBarrier, trace, callVars, facadeVars>>

\* what create_connection_handle made of its arguments: the error it returns, the fields
\* of connstr.options written until then, and the credentials of the origin
Origin(err, set, cred) == [err |-> err, set |-> set, cred |-> cred]
NoOrigin == Origin(NoErr, <<>>, NoCredentials)

Validated(connstr_error, options) ==
    IF connstr_error THEN Origin(CreateError(connstr_error, options), <<>>, NoCredentials)
    ELSE IF apply_options(options).err.ec # "success"
        THEN Origin(CreateError(connstr_error, options), apply_options(options).set, NoCredentials)
    ELSE Origin(CreateError(connstr_error, options), apply_options(options).set,
                extract_credentials(options).cred)

\* create_connection_handle, the arguments and the validated origin kept
create_connection_handle(connstr_error, options) ==
    /\ Running
    /\ hstate = "none"
    /\ copts = nullptr
    /\ \E o \in {Validated(connstr_error, options)} :
          /\ Construct(o.err, TRUE, TRUE)
          /\ corigin' = o
    /\ copts' = [connstr_error |-> connstr_error, options |-> options]
    /\ UNCHANGED <<td, tdThread, closeBarrier, trace, callVars, fop, fopts, fpc, freq, ferr,
                   freads, fsub, fresp, fid, fout, fctx, builderVars, versionVars>>

\* std::thread::joinable() of impl::worker
Joinable == worker \in {"running", "returned", "dtor", "exited"}

\* asio::io_context::run() returns once the loop has no work left
LoopOutOfWork ==
    /\ engine = {}
    /\ closeBarrier # "unset"
    /\ ~work_guard \/ closeBarrier = "set"

\* the worker's thread function: self->ctx_.run() returns
WorkerRunReturns ==
    /\ Running
    /\ worker = "running"
    /\ LoopOutOfWork
    /\ worker' = "returned"
    /\ UNCHANGED <<process, hstate, createErr, cluster_, work_guard, handleRef, workerRef,
                   td, tdThread, closeBarrier, trace, callVars, facadeVars>>

\* the worker's lambda is destroyed: it drops self, and runs ~impl when it was the last owner
WorkerDropsSelf ==
    /\ Running
    /\ worker = "returned"
    /\ workerRef' = FALSE
    /\ IF workerRef /\ ~handleRef /\ td = "idle"
       THEN /\ worker' = "dtor"
            /\ td' = "enter"
            /\ tdThread' = "worker"
       ELSE /\ worker' = "exited"
            /\ UNCHANGED <<td, tdThread>>
    /\ UNCHANGED <<process, hstate, createErr, cluster_, work_guard, handleRef,
                   closeBarrier, trace, callVars, facadeVars>>

\* the connection_handle is destroyed: impl_ is dropped, and ~impl runs on this
\* thread when it was the last owner
ReleaseImpl ==
    /\ Running
    /\ hstate = "alive"
    /\ \A c \in Callers : cpc[c] # "waiting"
    /\ fpc # "submitted"
    /\ hstate' = "destroyed"
    /\ handleRef' = FALSE
    /\ IF ~workerRef /\ td = "idle"
       THEN /\ td' = "enter"
            /\ tdThread' = "handle"
       ELSE UNCHANGED <<td, tdThread>>
    /\ UNCHANGED <<process, createErr, cluster_, work_guard, worker, workerRef,
                   closeBarrier, trace, callVars, facadeVars>>

\* the test of cluster_ left out
HasClusterAlways == TRUE

\* ~impl: if (cluster_)
HasCluster == cluster_ = "present"

\* ~impl: cluster_->close([barrier]() { barrier->set_value(); })
TdClose ==
    /\ Running
    /\ td = "enter"
    /\ IF HasCluster
       THEN /\ closeBarrier' = "unset"
            /\ trace' = Append(trace, "close")
            /\ td' = "wait"
       ELSE /\ td' = "members"
            /\ UNCHANGED <<closeBarrier, trace>>
    /\ UNCHANGED <<process, hstate, createErr, cluster_, work_guard, worker, handleRef,
                   workerRef, tdThread, callVars, facadeVars>>

\* the engine completes the close: the handler sets the barrier
EngineCloseFires ==
    /\ Running
    /\ closeBarrier = "unset"
    /\ closeBarrier' = "set"
    /\ trace' = Append(trace, "fired")
    /\ UNCHANGED <<process, hstate, createErr, cluster_, work_guard, worker, handleRef,
                   workerRef, td, tdThread, callVars, facadeVars>>

\* f.wait() left out: the join no longer waits for the close completion
CloseObservedNoWait == TRUE

\* ~impl: f.wait() returns
CloseObserved == closeBarrier = "set"

TdWait ==
    /\ Running
    /\ td = "wait"
    /\ CloseObserved
    /\ td' = "join"
    /\ trace' = Append(trace, "observed")
    /\ UNCHANGED <<process, hstate, createErr, cluster_, work_guard, worker, handleRef,
                   workerRef, tdThread, closeBarrier, callVars, facadeVars>>

\* ~impl: if (worker.joinable()) worker.join(); a thread that joins itself gets
\* std::system_error out of a destructor, which is std::terminate
TdJoin ==
    /\ Running
    /\ td = "join"
    /\ IF ~Joinable
       THEN /\ td' = "release"
            /\ UNCHANGED <<process, worker, trace>>
       ELSE IF tdThread = "worker"
       THEN /\ process' = "terminated"
            /\ UNCHANGED <<td, worker, trace>>
       ELSE /\ worker = "exited"
            /\ worker' = "joined"
            /\ trace' = Append(trace, "join")
            /\ td' = "release"
            /\ UNCHANGED process
    /\ UNCHANGED <<hstate, createErr, cluster_, work_guard, handleRef, workerRef,
                   tdThread, closeBarrier, callVars, facadeVars>>

\* ~impl: cluster_.reset()
TdRelease ==
    /\ Running
    /\ td = "release"
    /\ cluster_' = "released"
    /\ trace' = Append(trace, "release")
    /\ td' = "members"
    /\ UNCHANGED <<process, hstate, createErr, work_guard, worker, handleRef, workerRef,
                   tdThread, closeBarrier, callVars, facadeVars>>

\* the members are destroyed after the body: ~thread of a joinable worker is std::terminate
TdMembers ==
    /\ Running
    /\ td = "members"
    /\ IF Joinable
       THEN /\ process' = "terminated"
            /\ UNCHANGED td
       ELSE /\ td' = "done"
            /\ UNCHANGED process
    /\ UNCHANGED <<hstate, createErr, cluster_, work_guard, worker, handleRef, workerRef,
                   tdThread, closeBarrier, trace, callVars, facadeVars>>

----------------------------------------------------------------------------
(* The error contexts: retry_reason_to_string and the six builders *)

\* the enumerators of io::retry_reason
RetryReason ==
    {"io::retry_reason::do_not_retry",
     "io::retry_reason::socket_not_available",
     "io::retry_reason::service_not_available",
     "io::retry_reason::node_not_available",
     "io::retry_reason::kv_not_my_vbucket",
     "io::retry_reason::kv_collection_outdated",
     "io::retry_reason::kv_error_map_retry_indicated",
     "io::retry_reason::kv_locked",
     "io::retry_reason::kv_temporary_failure",
     "io::retry_reason::kv_sync_write_in_progress",
     "io::retry_reason::kv_sync_write_re_commit_in_progress",
     "io::retry_reason::service_response_code_indicated",
     "io::retry_reason::socket_closed_while_in_flight",
     "io::retry_reason::circuit_breaker_open",
     "io::retry_reason::query_prepared_statement_failure",
     "io::retry_reason::query_index_not_found",
     "io::retry_reason::analytics_temporary_failure",
     "io::retry_reason::search_too_many_requests",
     "io::retry_reason::views_temporary_failure",
     "io::retry_reason::views_no_active_partition",
     "io::retry_reason::unknown"}

\* a value of the type that is none of its enumerators
OutOfRange == "io::retry_reason(255)"

\* a variant that gives kv_locked the name of kv_temporary_failure
retry_reason_to_string_merged(reason) ==
    CASE reason = "io::retry_reason::do_not_retry" -> "do_not_retry"
          [] reason = "io::retry_reason::socket_not_available" -> "socket_not_available"
          [] reason = "io::retry_reason::service_not_available" -> "service_not_available"
          [] reason = "io::retry_reason::node_not_available" -> "node_not_available"
          [] reason = "io::retry_reason::kv_not_my_vbucket" -> "kv_not_my_vbucket"
          [] reason = "io::retry_reason::kv_collection_outdated" -> "kv_collection_outdated"
          [] reason = "io::retry_reason::kv_error_map_retry_indicated" -> "kv_error_map_retry_indicated"
          [] reason = "io::retry_reason::kv_locked" -> "kv_temporary_failure"
          [] reason = "io::retry_reason::kv_temporary_failure" -> "kv_temporary_failure"
          [] reason = "io::retry_reason::kv_sync_write_in_progress" -> "kv_sync_write_in_progress"
          [] reason = "io::retry_reason::kv_sync_write_re_commit_in_progress" -> "kv_sync_write_re_commit_in_progress"
          [] reason = "io::retry_reason::service_response_code_indicated" -> "service_response_code_indicated"
          [] reason = "io::retry_reason::socket_closed_while_in_flight" -> "socket_closed_while_in_flight"
          [] reason = "io::retry_reason::circuit_breaker_open" -> "circuit_breaker_open"
          [] reason = "io::retry_reason::query_prepared_statement_failure" -> "query_prepared_statement_failure"
          [] reason = "io::retry_reason::query_index_not_found" -> "query_index_not_found"
          [] reason = "io::retry_reason::analytics_temporary_failure" -> "analytics_temporary_failure"
          [] reason = "io::retry_reason::search_too_many_requests" -> "search_too_many_requests"
          [] reason = "io::retry_reason::views_temporary_failure" -> "views_temporary_failure"
          [] reason = "io::retry_reason::views_no_active_partition" -> "views_no_active_partition"
          [] reason = "io::retry_reason::unknown" -> "unknown"
          [] OTHER -> "unexpected"

retry_reason_to_string(reason) ==
    CASE reason = "io::retry_reason::do_not_retry" -> "do_not_retry"
          [] reason = "io::retry_reason::socket_not_available" -> "socket_not_available"
          [] reason = "io::retry_reason::service_not_available" -> "service_not_available"
          [] reason = "io::retry_reason::node_not_available" -> "node_not_available"
          [] reason = "io::retry_reason::kv_not_my_vbucket" -> "kv_not_my_vbucket"
          [] reason = "io::retry_reason::kv_collection_outdated" -> "kv_collection_outdated"
          [] reason = "io::retry_reason::kv_error_map_retry_indicated" -> "kv_error_map_retry_indicated"
          [] reason = "io::retry_reason::kv_locked" -> "kv_locked"
          [] reason = "io::retry_reason::kv_temporary_failure" -> "kv_temporary_failure"
          [] reason = "io::retry_reason::kv_sync_write_in_progress" -> "kv_sync_write_in_progress"
          [] reason = "io::retry_reason::kv_sync_write_re_commit_in_progress" -> "kv_sync_write_re_commit_in_progress"
          [] reason = "io::retry_reason::service_response_code_indicated" -> "service_response_code_indicated"
          [] reason = "io::retry_reason::socket_closed_while_in_flight" -> "socket_closed_while_in_flight"
          [] reason = "io::retry_reason::circuit_breaker_open" -> "circuit_breaker_open"
          [] reason = "io::retry_reason::query_prepared_statement_failure" -> "query_prepared_statement_failure"
          [] reason = "io::retry_reason::query_index_not_found" -> "query_index_not_found"
          [] reason = "io::retry_reason::analytics_temporary_failure" -> "analytics_temporary_failure"
          [] reason = "io::retry_reason::search_too_many_requests" -> "search_too_many_requests"
          [] reason = "io::retry_reason::views_temporary_failure" -> "views_temporary_failure"
          [] reason = "io::retry_reason::views_no_active_partition" -> "views_no_active_partition"
          [] reason = "io::retry_reason::unknown" -> "unknown"
          [] OTHER -> "unexpected"

\* std::optional: no value, or one
None == <<>>
Some(v) == <<v>>

\* the loop that inserts the name of every reason into out.retry_reasons
RetryReasonsOf(ctx) == {retry_reason_to_string(reason) : reason \in ctx.retry_reasons}

DocId(bucket, scope, collection, key) ==
    [bucket |-> bucket, scope |-> scope, collection |-> collection, key |-> key]
NoId == DocId("", "", "", "")

NoContext == [kind |-> "none"]

\* error_context::key_value as the engine fills it
KeyValueSource(id, status_code, error_map_info, enhanced_error_info, attempts, reasons) ==
    [kind |-> "key_value", id |-> id, opaque |-> 11, cas |-> 12,
     status_code |-> status_code,
     error_map_info |-> error_map_info,
     enhanced_error_info |-> enhanced_error_info,
     last_dispatched_to |-> Some("to"), last_dispatched_from |-> Some("from"),
     retry_attempts |-> attempts, retry_reasons |-> reasons]

\* the contexts of the other subsystems; their plain fields are copied one by one
PlainFields(kind) ==
    CASE kind \in {"query", "analytics"} ->
            {"client_context_id", "statement", "parameters", "first_error_message",
             "first_error_code", "http_status", "http_body"}
      [] kind = "view" ->
            {"client_context_id", "design_document_name", "view_name", "query_string",
             "http_status", "http_body"}
      [] kind = "search" ->
            {"client_context_id", "index_name", "query", "parameters", "http_status", "http_body"}
      [] kind = "http" ->
            {"client_context_id", "method", "path", "http_status", "http_body",
             "last_dispatched_from", "last_dispatched_to"}

\* the context of a subsystem other than key-value, every plain field holding a value of
\* its own
ServiceSource(kind, attempts, reasons) ==
    [kind |-> kind, fields |-> [f \in PlainFields(kind) |-> "the " \o f],
     retry_attempts |-> attempts, retry_reasons |-> reasons]

\* what reading through an optional that holds no value can give
EmptyOptionalReads == {"fault", "indeterminate"}

\* build_error_context(const error_context::key_value&): inside 'if (ctx.enhanced_error_info)'
\* the enhanced error context is read from ctx.error_map_info->description; with no
\* error-map info that reads through an empty optional (ub: what the read gives)
build_error_context(ctx, ub) ==
    [kind |-> "key_value",
     fault |-> ctx.enhanced_error_info # None /\ ctx.error_map_info = None /\ ub = "fault",
     bucket |-> ctx.id.bucket, scope |-> ctx.id.scope, collection |-> ctx.id.collection,
     id |-> ctx.id.key, opaque |-> ctx.opaque, cas |-> ctx.cas,
     status_code |-> ctx.status_code,
     error_map_name |-> IF ctx.error_map_info = None THEN None
                        ELSE Some(ctx.error_map_info[1].name),
     error_map_description |-> IF ctx.error_map_info = None THEN None
                               ELSE Some(ctx.error_map_info[1].description),
     enhanced_error_reference |-> IF ctx.enhanced_error_info = None THEN None
                                  ELSE Some(ctx.enhanced_error_info[1].reference),
     enhanced_error_context |-> IF ctx.enhanced_error_info = None THEN None
                                ELSE IF ctx.error_map_info = None THEN Some("indeterminate")
                                ELSE Some(ctx.error_map_info[1].description),
     last_dispatched_to |-> ctx.last_dispatched_to,
     last_dispatched_from |-> ctx.last_dispatched_from,
     retry_attempts |-> ctx.retry_attempts,
     retry_reasons |-> RetryReasonsOf(ctx)]

\* the five builders of the services: the plain fields, the attempts and the names of the
\* reasons
ServiceContext(ctx) ==
    [kind |-> ctx.kind, fault |-> FALSE, fields |-> ctx.fields,
     retry_attempts |-> ctx.retry_attempts, retry_reasons |-> RetryReasonsOf(ctx)]

build_query_error_context(ctx) == ServiceContext(ctx)
build_analytics_error_context(ctx) == ServiceContext(ctx)
build_view_query_error_context(ctx) == ServiceContext(ctx)
build_search_query_error_context(ctx) == ServiceContext(ctx)
build_http_error_context(ctx) == ServiceContext(ctx)

\* a variant in which the error of a failing response is given no context
BuildContextNone(ctx, ub) == NoContext

\* the builder of the subsystem the context belongs to
BuildContext(ctx, ub) ==
    CASE ctx.kind = "key_value" -> build_error_context(ctx, ub)
      [] ctx.kind = "query" -> build_query_error_context(ctx)
      [] ctx.kind = "analytics" -> build_analytics_error_context(ctx)
      [] ctx.kind = "view" -> build_view_query_error_context(ctx)
      [] ctx.kind = "search" -> build_search_query_error_context(ctx)
      [] ctx.kind = "http" -> build_http_error_context(ctx)

----------------------------------------------------------------------------
(* The blocking call bridge: impl::open .. impl::search_index_upsert *)

BridgedOps == {"open", "bucket_open", "bucket_close", "key_value_execute", "query",
               "analytics_query", "view_query", "search_query", "search_index_upsert"}

\* the codes an engine response carries
EngineCodes == {"success", "document_not_found", "unambiguous_timeout"}

NoCall == [kind |-> "none", req |-> 0]
Resp(req, ec) == [req |-> req, ec |-> ec]
NoResp == Resp(0, "")
Result(req, ec, ctx) == [req |-> req, ec |-> ec, ctx |-> ctx]
NoResult == Result(0, "", "none")

\* one promise shared by every call
BarrierShared(c) == "t1"

\* the promise a call makes for itself: auto barrier = std::make_shared<std::promise<..>>()
BarrierOf(c) == c

\* the request handed to the engine twice
SubmissionTwice(c, kind, id) ==
    {[req |-> id, slot |-> c, kind |-> kind, n |-> i] : i \in 1..2}

\* cluster_->execute(std::move(request), [barrier](Response&& resp) {...}):
\* the requests handed to the engine by one bridged call
Submission(c, kind, id) == {[req |-> id, slot |-> BarrierOf(c), kind |-> kind, n |-> 1]}

\* the call returns without waiting for its promise
CompletedNoWait(c) == TRUE

\* f.get() returns: the promise of the call has been fulfilled
Completed(c) == barrier[BarrierOf(c)] # NoResp

\* the bridge reports a timeout of its own
ResultCodeTimeout(resp) == "unambiguous_timeout"

\* the error code a bridged call returns: resp.ctx.ec (for open and the buckets, ec)
ResultCode(resp) == resp.ec

\* the error context a failed call attaches, by subsystem
ContextOf(kind) ==
    CASE kind = "key_value_execute" -> "key_value"
      [] kind = "query" -> "query"
      [] kind = "analytics_query" -> "analytics"
      [] kind = "view_query" -> "view"
      [] kind = "search_query" -> "search"
      [] kind = "search_index_upsert" -> "http"
      [] OTHER -> "none"

\* what the bridged call hands back once f.get() has returned resp
Bridge(kind, resp) ==
    IF ResultCode(resp) # "success"
    THEN Result(resp.req, ResultCode(resp), ContextOf(kind))
    ELSE Result(resp.req, "success", "none")

\* a caller thread enters a bridged call: promise made, request submitted, then f.get().
\* cluster_ is dereferenced without a test: a null cluster_ is a fault
CallSubmit(c, kind) ==
    /\ Running
    /\ hstate = "alive"
    /\ cpc[c] # "waiting"
    /\ ncalls[c] < MaxCalls
    /\ IF cluster_ # "present"
       THEN /\ process' = "terminated"
            /\ UNCHANGED callVars
       ELSE /\ call' = [call EXCEPT ![c] = [kind |-> kind, req |-> nextReq]]
            /\ nextReq' = nextReq + 1
            /\ barrier' = [barrier EXCEPT ![BarrierOf(c)] = NoResp]
            /\ engine' = engine \cup Submission(c, kind, nextReq)
            /\ subCount' = [subCount EXCEPT ![nextReq] = Cardinality(Submission(c, kind, nextReq))]
            /\ cpc' = [cpc EXCEPT ![c] = "waiting"]
            /\ ncalls' = [ncalls EXCEPT ![c] = @ + 1]
            /\ ret' = [ret EXCEPT ![c] = NoResult]
            /\ UNCHANGED <<process, delivered>>
    /\ UNCHANGED <<hstate, createErr, cluster_, work_guard, worker, handleRef, workerRef,
                   td, tdThread, closeBarrier, trace, facadeVars>>

\* the engine completes one request on the event loop that the worker runs:
\* the handler fulfils the promise it captured
EngineDeliver(e, ec) ==
    /\ Running
    /\ e \in engine
    /\ worker = "running"
    /\ barrier' = [barrier EXCEPT ![e.slot] = Resp(e.req, ec)]
    /\ engine' = engine \ {e}
    /\ delivered' = [delivered EXCEPT ![e.req] = ec]
    /\ UNCHANGED <<lifeVars, cpc, call, ncalls, nextReq, subCount, ret, facadeVars>>

\* a variant in which an open that failed gives up the cluster
CallReturnDropping(c) ==
    /\ Running
    /\ cpc[c] = "waiting"
    /\ Completed(c)
    /\ ret' = [ret EXCEPT ![c] = Bridge(call[c].kind, barrier[BarrierOf(c)])]
    /\ cpc' = [cpc EXCEPT ![c] = "returned"]
    /\ cluster_' = IF call[c].kind = "open" /\ ResultCode(barrier[BarrierOf(c)]) # "success"
                   THEN "absent" ELSE cluster_
    /\ UNCHANGED <<process, hstate, createErr, work_guard, worker, handleRef, workerRef, td,
                   tdThread, closeBarrier, trace, call, ncalls, nextReq, engine, subCount,
                   barrier, delivered, facadeVars>>

\* f.get() returns and the call returns to its caller
CallReturn(c) ==
    /\ Running
    /\ cpc[c] = "waiting"
    /\ Completed(c)
    /\ ret' = [ret EXCEPT ![c] = Bridge(call[c].kind, barrier[BarrierOf(c)])]
    /\ cpc' = [cpc EXCEPT ![c] = "returned"]
    /\ UNCHANGED <<lifeVars, call, ncalls, nextReq, engine, subCount, barrier, delivered,
                   facadeVars>>

----------------------------------------------------------------------------
(* The option bags handed to the operations *)

Key(k, kind) == [k |-> k, kind |-> kind]

\* the keys an operation looks up, in the order of its code, and then a key it ignores;
\* a key of a token_ kind is looked up only while the tokens of consistentWith are read
OptionKeys(op) ==
    CASE op = "document_upsert" ->
            <<Key("timeoutMilliseconds", "long"), Key("durabilityLevel", "durability"),
              Key("durabilityTimeoutSeconds", "long"), Key("preserveExpiry", "bool"),
              Key("expiry", "long"), Key("unknownKey", "other")>>
      [] op = "document_get" ->
            <<Key("withExpiry", "bool"), Key("projections", "strings"),
              Key("timeoutMilliseconds", "long"), Key("unknownKey", "other")>>
      [] op = "document_exists" ->
            <<Key("timeoutMilliseconds", "long"), Key("unknownKey", "other")>>
      [] op = "query" ->
            <<Key("timeoutMilliseconds", "long"), Key("scanConsistency", "enum"),
              Key("scanCap", "long"), Key("pipelineCap", "long"), Key("pipelineBatch", "long"),
              Key("maxParallelism", "long"), Key("profile", "enum"), Key("readonly", "bool"),
              Key("flexIndex", "bool"), Key("adHoc", "bool"), Key("positionalParameters", "array"),
              Key("namedParameters", "array"), Key("raw", "array"), Key("consistentWith", "tokens"),
              Key("partitionId", "token_long"), Key("sequenceNumber", "token_long"),
              Key("clientContextId", "string"), Key("metrics", "bool"), Key("preserveExpiry", "bool"),
              Key("scopeName", "string"), Key("bucketName", "string"), Key("unknownKey", "other")>>
      [] op = "analytics_query" ->
            <<Key("timeoutMilliseconds", "long"), Key("scanConsistency", "enum"),
              Key("readonly", "bool"), Key("priority", "bool"), Key("positionalParameters", "array"),
              Key("namedParameters", "array"), Key("raw", "array"), Key("clientContextId", "string"),
              Key("scopeName", "string"), Key("bucketName", "string"), Key("unknownKey", "other")>>
      [] op = "search_query" ->
            <<Key("timeoutMilliseconds", "long"), Key("limit", "long"), Key("skip", "long"),
              Key("explain", "bool"), Key("disableScoring", "bool"), Key("includeLocations", "bool"),
              Key("highlightFields", "strings"), Key("fields", "strings"), Key("collections", "strings"),
              Key("sortSpecs", "strings"), Key("highlightStyle", "enum"), Key("consistentWith", "tokens"),
              Key("partitionId", "token_long"), Key("bucketName", "token_string"), Key("raw", "array"),
              Key("facets", "array"), Key("clientContextId", "string"), Key("unknownKey", "other")>>
      [] op = "view_query" ->
            <<Key("timeoutMilliseconds", "long"), Key("scanConsistency", "enum"), Key("keys", "array"),
              Key("order", "enum"), Key("reduce", "bool"), Key("group", "bool"),
              Key("groupLevel", "long"), Key("limit", "long"), Key("skip", "bool"),
              Key("key", "string"), Key("startKey", "string"), Key("endKey", "string"),
              Key("startKeyDocId", "string"), Key("endKeyDocId", "string"),
              Key("inclusiveEnd", "bool"), Key("debug", "bool"), Key("unknownKey", "other")>>
      [] op = "search_index_upsert" ->
            <<Key("timeoutMilliseconds", "long"), Key("unknownKey", "other")>>

\* the keys of the index definition of search_index_upsert
IndexKeys ==
    <<Key("name", "string"), Key("type", "string"), Key("uuid", "string"), Key("params", "string"),
      Key("sourceUuid", "string"), Key("sourceName", "string"), Key("sourceType", "string"),
      Key("sourceParams", "string")>>

\* a mutation token as the operations return it
Token == ZArr(<<KV("bucketName", ZStr("b")), KV("partitionId", ZLong(3)),
                KV("partitionUuid", ZStr("a1")), KV("sequenceNumber", ZStr("2f"))>>)

\* the values a key of each kind is given: null, values of the expected type, and values
\* of another type
ValuesOf(kind) ==
    CASE kind \in {"long", "token_long"} -> <<ZNull, ZLong(2500), ZStr("x")>>
      [] kind = "bool" -> <<ZNull, ZTrue, ZFalse, ZLong(1)>>
      [] kind \in {"string", "token_string"} -> <<ZNull, ZStr("s"), ZLong(1)>>
      [] kind = "durability" ->
            <<ZNull, ZStr("none"), ZStr("majority"), ZStr("majorityAndPersistToActive"),
              ZStr("persistToMajority"), ZStr("bogus"), ZLong(1)>>
      [] kind = "enum" -> <<ZNull, ZLong(-1), ZLong(0), ZLong(1), ZLong(2), ZLong(3), ZLong(4), ZStr("x")>>
      [] kind = "strings" ->
            <<ZNull, ZArr(<<>>), ZArr(<<KV("", ZStr("a"))>>),
              ZArr(<<KV("", ZStr("a")), KV("", ZLong(1))>>), ZStr("x")>>
      [] kind = "array" -> <<ZNull, ZArr(<<>>), ZArr(<<KV("k", ZStr("v"))>>), ZLong(5)>>
      [] kind = "tokens" -> <<ZNull, ZArr(<<>>), ZArr(<<KV("", Token)>>), ZStr("x")>>
      [] kind = "other" -> <<ZLong(1)>>

\* what is passed for a bag that is no array: nothing, null, a scalar
NoBag == <<nullptr, ZNull, ZStr("x")>>

\* a bag is chosen by a list of pairs <<i, j>>: key i of the keys holds its value j, the
\* keys in their order; the list <<<<0, j>>>> chooses NoBag[j].
\* The pairs of a key and one of its values
Slots(keys) ==
    UNION {{<<i, j>> : j \in 1..Len(ValuesOf(keys[i].kind))} : i \in 1..Len(keys)}

\* the lists of n keys
Picks(keys, n) ==
    {pick \in [1..n -> Slots(keys)] : \A m \in 1..(n - 1) : pick[m][1] < pick[m + 1][1]}

\* an option bag: not passed, null, not an array, or an array of at most MaxPresent keys
Bags(keys) ==
    {<<<<0, j>>>> : j \in 1..Len(NoBag)} \cup UNION {Picks(keys, n) : n \in 0..MaxPresent}

BagOf(keys, pick) ==
    IF pick # <<>> /\ pick[1][1] = 0 THEN NoBag[pick[1][2]]
    ELSE ZArr([n \in 1..Len(pick) |->
                  KV(keys[pick[n][1]].k, ValuesOf(keys[pick[n][1]].kind)[pick[n][2]])])

\* the name spaces view_query is called with
NameSpaceCodes == {-1, 0, 1, 2, 3}

Choice(o, ix, ns) == [o |-> o, ix |-> ix, ns |-> ns]

\* the calls made of an operation
Choices(op) ==
    CASE op = "view_query" ->
            {Choice(o, <<>>, 2) : o \in Bags(OptionKeys(op))}
            \cup {Choice(o, <<>>, n) : o \in {<<<<0, 1>>>>, <<>>}, n \in NameSpaceCodes}
      [] op = "search_index_upsert" ->
            {Choice(o, ix, 0) : o \in Bags(OptionKeys(op)), ix \in Bags(IndexKeys)}
      [] OTHER -> {Choice(o, <<>>, 0) : o \in Bags(OptionKeys(op))}

Inputs(op, c) ==
    Args(BagOf(OptionKeys(op), c.o),
         IF op = "search_index_upsert" THEN BagOf(IndexKeys, c.ix) ELSE nullptr,
         c.ns)

----------------------------------------------------------------------------
(* An operation of connection_handle from its call to its return *)

\* the thread that calls the operations
Facade == "t1"

\* the bridged call was made whatever the decoding returned
ReachesEngineAlways(d) == ~d.fault

\* impl_->...execute(std::move(request)) comes after every `return e` of the decoding
ReachesEngine(d) == ~d.fault /\ d.err.ec = "success"

KeyValueOps == {"document_upsert", "document_get", "document_exists"}

\* the document ids the key-value operations are called with: couchbase::document_id doc_id
DocIds == {DocId("b1", "s1", "c1", "k1"), DocId("b2", "s2", "c2", "k2")}
IdsOf(op) == IF op \in KeyValueOps THEN DocIds ELSE {NoId}

\* the error context of the engine's response to a request: the id of the request, the
\* status of the server when it answered, no retries
ResponseContext(kind, id, ec) ==
    IF kind = "key_value"
    THEN KeyValueSource(id, IF ec = "document_not_found" THEN Some(1) ELSE None, None, None, 0, {})
    ELSE ServiceSource(kind, 0, {})

\* return_value before array_init
Unset == nullptr

\* a member of the response put into the output
Field(name) == ZV("response", 0, name, <<>>)

\* resp.exists()
Exists(resp) == resp.ec = "success"

\* the output an operation builds from the response once it takes it for an answer
\* fmt::format("{:x}", n)
HexDigits == <<"0", "1", "2", "3", "4", "5", "6", "7", "8", "9", "a", "b", "c", "d", "e", "f">>

RECURSIVE Hex(_)
Hex(n) == IF n < 16 THEN HexDigits[n + 1] ELSE Hex(n \div 16) \o HexDigits[(n % 16) + 1]

\* couchbase::mutation_token as a response carries it
MutationToken(bucket_name, partition_id, partition_uuid, sequence_number) ==
    [bucket_name |-> bucket_name, partition_id |-> partition_id,
     partition_uuid |-> partition_uuid, sequence_number |-> sequence_number]

NoToken == MutationToken("", 0, 0, 0)

mutation_token_to_zval(token) ==
    ZArr(<<KV("bucketName", ZStr(token.bucket_name)),
           KV("partitionId", ZLong(token.partition_id)),
           KV("partitionUuid", ZStr(Hex(token.partition_uuid))),
           KV("sequenceNumber", ZStr(Hex(token.sequence_number)))>>)

\* a variant that looks at the bucket name only
is_mutation_token_valid_named(token) == token.bucket_name # ""

is_mutation_token_valid(token) == token.bucket_name # "" /\ token.partition_uuid > 0

\* the tokens a mutation response can carry; a response whose token no operation reads
\* is given the empty one
ResponseTokens(op, ec) ==
    IF op = "document_upsert" /\ ec = "success"
    THEN {MutationToken(b, 3, u, 255) : b \in {"", "travel"}, u \in {0, 26}}
    ELSE {NoToken}

\* the response as the operation reads it off the future, its mutation token included
Received(resp, token) == [req |-> resp.req, ec |-> resp.ec, token |-> token]

Output(op, req, resp) ==
    CASE op = "document_exists" ->
            ZArr(<<KV("exists", IF Exists(resp) THEN ZTrue ELSE ZFalse),
                   KV("deleted", Field("deleted")), KV("cas", Field("cas")),
                   KV("flags", Field("flags")), KV("datatype", Field("datatype")),
                   KV("expiry", Field("expiry")),
                   KV("sequenceNumber", Field("sequence_number"))>>)
      [] op = "document_get" ->
            ZArr(<<KV("cas", Field("cas")), KV("flags", Field("flags")),
                   KV("value", Field("value"))>>
                 \o IF "with_expiry" \in DOMAIN req /\ req["with_expiry"] = ZTrue
                    THEN <<KV("expiry", Field("expiry"))>> ELSE <<>>)
      [] op = "document_upsert" ->
            ZArr(<<KV("cas", Field("cas"))>>
                 \o IF is_mutation_token_valid(resp.token)
                    THEN <<KV("mutationToken", mutation_token_to_zval(resp.token))>>
                    ELSE <<>>)
      [] OTHER -> ZV("retval", 0, op, <<>>)

\* the operation is called: it decodes its options and, unless that returned an error,
\* enters the bridged call
OpInvoke(op, in) ==
    /\ Running
    /\ hstate = "alive"
    /\ fpc = "idle"
    /\ cpc[Facade] = "idle"
    /\ ncalls[Facade] < MaxCalls
    /\ fop' = op
    /\ fopts' = in
    /\ \E id \in IdsOf(op) : fid' = id
    /\ fout' = Unset
    /\ fctx' = NoContext
    /\ \E d \in {Decode(op, in)}, kind \in {ExecuteKind(op)} :
       /\ freq' = d.req
       /\ freads' = d.reads
       /\ ferr' = d.err
       /\ fresp' = NoResp
       /\ fsub' = IF ReachesEngine(d) THEN 1 ELSE 0
       /\ fpc' = IF d.fault THEN "fault"
                 ELSE IF d.err.ec # "success" THEN "returned"
                 ELSE "submitted"
       /\ process' = IF d.fault \/ (ReachesEngine(d) /\ cluster_ # "present")
                     THEN "terminated" ELSE process
       /\ IF ReachesEngine(d) /\ cluster_ = "present"
          THEN /\ call' = [call EXCEPT ![Facade] = [kind |-> kind, req |-> nextReq]]
               /\ nextReq' = nextReq + 1
               /\ barrier' = [barrier EXCEPT ![BarrierOf(Facade)] = NoResp]
               /\ engine' = engine \cup Submission(Facade, kind, nextReq)
               /\ subCount' = [subCount EXCEPT ![nextReq] = Cardinality(Submission(Facade, kind, nextReq))]
               /\ cpc' = [cpc EXCEPT ![Facade] = "waiting"]
               /\ ncalls' = [ncalls EXCEPT ![Facade] = @ + 1]
               /\ ret' = [ret EXCEPT ![Facade] = NoResult]
               /\ UNCHANGED delivered
          ELSE UNCHANGED callVars
    /\ UNCHANGED <<hstate, createErr, cluster_, work_guard, worker, handleRef, workerRef,
                   td, tdThread, closeBarrier, trace, builderVars, versionVars, createVars>>

\* a caller calls one of the operations on the connection it holds
OpCall ==
    /\ hstate = "alive"
    /\ fpc = "idle"
    /\ \E op \in Operations : \E c \in Choices(op) : OpInvoke(op, Inputs(op, c))

\* a variant in which document_exists returns every error of its bridged call
OpErrorAlways(op, r) ==
    IF r.ec = "success" THEN NoErr
    ELSE CoreErr(r.ec, <<"unable to execute", ExecuteKind(op)>>, "engine", "")

\* the error an operation returns for the result of its bridged call; document_exists
\* takes document_not_found for an answer
OpError(op, r) ==
    IF r.ec = "success" \/ (op = "document_exists" /\ r.ec = "document_not_found") THEN NoErr
    ELSE CoreErr(r.ec, <<"unable to execute", ExecuteKind(op)>>, "engine", "")

\* the bridged call returns and the operation returns to its caller
OpReturn ==
    /\ Running
    /\ fpc = "submitted"
    /\ cpc[Facade] = "waiting"
    /\ Completed(Facade)
    /\ \E r \in {Bridge(call[Facade].kind, barrier[BarrierOf(Facade)])},
          token \in ResponseTokens(fop, barrier[BarrierOf(Facade)].ec) :
       /\ ret' = [ret EXCEPT ![Facade] = r]
       /\ fresp' = Received(barrier[BarrierOf(Facade)], token)
       /\ ferr' = OpError(fop, r)
       /\ fctx' = IF OpError(fop, r) = NoErr THEN NoContext
                 ELSE BuildContext(ResponseContext(r.ctx, fid, r.ec), "fault")
       /\ fout' = IF OpError(fop, r) = NoErr
                 THEN Output(fop, freq, Received(barrier[BarrierOf(Facade)], token))
                 ELSE Unset
    /\ cpc' = [cpc EXCEPT ![Facade] = "returned"]
    /\ fpc' = "returned"
    /\ UNCHANGED <<lifeVars, call, ncalls, nextReq, engine, subCount, barrier, delivered,
                   fop, fopts, freq, freads, fsub, fid, builderVars,
                   versionVars, createVars>>

----------------------------------------------------------------------------
(* The specification of the lifecycle and the bridge *)

Init ==
    /\ process = "running"
    /\ hstate = "none"
    /\ createErr = NoErr
    /\ cluster_ = "none"
    /\ work_guard = FALSE
    /\ worker = "none"
    /\ handleRef = FALSE
    /\ workerRef = FALSE
    /\ td = "idle"
    /\ tdThread = "none"
    /\ closeBarrier = "none"
    /\ trace = <<>>
    /\ cpc = [c \in Callers |-> "idle"]
    /\ call = [c \in Callers |-> NoCall]
    /\ ncalls = [c \in Callers |-> 0]
    /\ nextReq = 1
    /\ engine = {}
    /\ subCount = [r \in 1..MaxReq |-> 0]
    /\ barrier = [c \in Callers |-> NoResp]
    /\ delivered = [r \in 1..MaxReq |-> ""]
    /\ ret = [c \in Callers |-> NoResult]
    /\ fop = "none"
    /\ fopts = Args(nullptr, nullptr, 0)
    /\ fpc = "idle"
    /\ freq = <<>>
    /\ ferr = NoErr
    /\ freads = <<>>
    /\ fsub = 0
    /\ fresp = NoResp
    /\ fid = NoId
    /\ fout = Unset
    /\ fctx = NoContext
    /\ bctx = NoContext
    /\ bout = NoContext
    /\ vpc = "idle"
    /\ vbucket = ""
    /\ vname = ""
    /\ vlog = <<>>
    /\ vret = ""
    /\ vcalls = 0
    /\ copts = nullptr
    /\ corigin = NoOrigin

Next ==
    \/ \E ce \in BOOLEAN, o \in ClusterBags, cr \in BOOLEAN, g \in BOOLEAN : Create(ce, o, cr, g)
    \/ WorkerRunReturns
    \/ WorkerDropsSelf
    \/ ReleaseImpl
    \/ TdClose
    \/ EngineCloseFires
    \/ TdWait
    \/ TdJoin
    \/ TdRelease
    \/ TdMembers
    \/ \E c \in Callers, k \in BridgedOps : CallSubmit(c, k)
    \/ \E e \in engine, ec \in EngineCodes : EngineDeliver(e, ec)
    \/ \E c \in Callers : CallReturn(c)

Spec == Init /\ [][Next]_vars

FairSpec ==
    /\ Spec
    /\ WF_vars(WorkerRunReturns)
    /\ WF_vars(WorkerDropsSelf)
    /\ WF_vars(TdClose)
    /\ WF_vars(EngineCloseFires)
    /\ WF_vars(TdWait)
    /\ WF_vars(TdJoin)
    /\ WF_vars(TdRelease)
    /\ WF_vars(TdMembers)
    /\ WF_vars(\E e \in engine, ec \in EngineCodes : EngineDeliver(e, ec))
    /\ WF_vars(\E c \in Callers : CallReturn(c))

\* the operations on a connection whose engine made its cluster and keeps the loop busy
OpsNext ==
    \/ \E ce \in BOOLEAN, o \in ClusterBags : Create(ce, o, TRUE, TRUE)
    \/ OpCall
    \/ \E e \in engine, ec \in EngineCodes : EngineDeliver(e, ec)
    \/ OpReturn

OpsSpec == Init /\ [][OpsNext]_vars

----------------------------------------------------------------------------
(* The specification of the error-context builders *)

\* the sets of at most n retry reasons, a value outside the enumeration among them
RECURSIVE ReasonSets(_)
ReasonSets(n) ==
    IF n = 0 THEN {{}}
    ELSE LET smaller == ReasonSets(n - 1)
         IN  smaller \cup {rs \cup {reason} : rs \in smaller, reason \in RetryReason \cup {OutOfRange}}

Optionals(v) == {None, Some(v)}

ErrorMapInfo == [name |-> "the name", description |-> "the description"]
EnhancedErrorInfo == [reference |-> "the reference", context |-> "the context"]

\* the key-value contexts an engine response can carry: every combination of the optional
\* groups
KeyValueSources ==
    {KeyValueSource(id, status_code, error_map_info, enhanced_error_info, attempts, reasons) :
        id \in DocIds, status_code \in Optionals(1),
        error_map_info \in Optionals(ErrorMapInfo),
        enhanced_error_info \in Optionals(EnhancedErrorInfo),
        attempts \in 0..MaxAttempts, reasons \in ReasonSets(MaxReasons)}

ServiceSources ==
    {ServiceSource(kind, attempts, reasons) :
        kind \in {"query", "analytics", "view", "search", "http"},
        attempts \in 0..MaxAttempts, reasons \in ReasonSets(MaxReasons)}

\* a builder is called with the context of a failing response
BuilderCall(ctx, ub) ==
    /\ bctx' = ctx
    /\ bout' = BuildContext(ctx, ub)
    /\ UNCHANGED <<lifeVars, callVars, fop, fopts, fpc, freq, ferr, freads, fsub, fresp,
                   fid, fout, fctx, versionVars, createVars>>

BuildKeyValue ==
    /\ bctx = NoContext
    /\ \E ctx \in KeyValueSources, ub \in EmptyOptionalReads : BuilderCall(ctx, ub)

BuildService ==
    /\ bctx = NoContext
    /\ \E ctx \in ServiceSources : BuilderCall(ctx, "fault")

CtxNext == BuildKeyValue \/ BuildService

CtxSpec == Init /\ [][CtxNext]_vars

----------------------------------------------------------------------------
(* The specification of create_connection_handle *)

\* an array of the entries that are there (nullptr: the key is not in the array)
Present(a) == ZArr(SelectSeq(a, LAMBDA e : e.v # nullptr))

AuthenticatorTypes == {nullptr, ZLong(1), ZStr("password"), ZStr("certificate"), ZStr("token")}
AuthenticatorFields == {nullptr, ZStr("u"), ZLong(1)}
MechanismLists ==
    {nullptr, ZNull, ZStr("PLAIN"), ZArr(<<KV("", ZStr("PLAIN")), KV("", ZLong(1))>>)}

Authenticators ==
    {nullptr, ZNull, ZStr("x")} \cup
    {Present(<<KV("type", type), KV("username", username), KV("password", password),
               KV("allowedSaslMechanisms", mechs), KV("certificatePath", certificate_path),
               KV("keyPath", key_path)>>) :
        type \in AuthenticatorTypes, username \in AuthenticatorFields,
        password \in AuthenticatorFields, mechs \in MechanismLists,
        certificate_path \in AuthenticatorFields, key_path \in AuthenticatorFields}

\* the bags that differ in their authenticator
AuthenticatorBags ==
    {nullptr, ZStr("x")} \cup {Present(<<KV("authenticator", auth)>>) : auth \in Authenticators}

TracerBags ==
    {ZArr(<<>>),
     ZArr(<<KV("orphanedSampleSize", ZLong(5)), KV("queryThreshold", ZLong(9))>>),
     ZArr(<<KV("queryThreshold", ZNull), KV("viewThreshold", ZLong(9))>>),
     ZArr(<<KV("queryThreshold", ZLong(-1)), KV("viewThreshold", ZLong(9))>>),
     ZArr(<<KV("unknownKey", ZLong(1)), KV("orphanedSampleSize", ZStr("x"))>>)}

MeterBags ==
    {ZArr(<<KV("emitInterval", ZLong(75))>>), ZArr(<<KV("emitInterval", ZLong(-1))>>)}

\* the entries a cluster option bag is made of: a key of every kind with a value of every
\* type, the sub-bags, and an entry with an integer key
ClusterEntries ==
    {KV(k, v) : k \in {"queryTimeout", "maxHttpConnections", "enableTls", "network",
                       "tlsVerify", "unknownKey"},
                v \in {ZNull, ZLong(75), ZLong(-1), ZStr(""), ZStr("peer"), ZTrue}}
    \cup {KV("thresholdLoggingTracerOptions", v) : v \in {ZNull, ZLong(75)} \cup TracerBags}
    \cup {KV("loggingMeterOptions", v) : v \in {ZNull, ZStr("x")} \cup MeterBags}
    \cup {KV(NullKey, ZLong(1))}

\* the entries that are put together into longer bags: a valid, an invalid and a null one,
\* the sub-bags, an unknown key and an integer key
OrderedEntries ==
    {KV("queryTimeout", ZLong(75)), KV("queryTimeout", ZLong(-1)), KV("enableTls", ZTrue),
     KV("network", ZNull), KV("network", ZStr("")), KV("tlsVerify", ZStr("peer")),
     KV("unknownKey", ZLong(75)), KV(NullKey, ZLong(1)),
     KV("thresholdLoggingTracerOptions",
        ZArr(<<KV("orphanedSampleSize", ZLong(5)), KV("queryThreshold", ZLong(9))>>)),
     KV("thresholdLoggingTracerOptions",
        ZArr(<<KV("queryThreshold", ZLong(-1)), KV("viewThreshold", ZLong(9))>>)),
     KV("loggingMeterOptions", ZArr(<<KV("emitInterval", ZLong(75))>>))}

\* n entries with different keys, in every order, and last the authenticator if there is one
EntryBags(entries, n) ==
    {Present([i \in 1..(n + 1) |-> IF i <= n THEN p[i] ELSE KV("authenticator", auth)]) :
        p \in {q \in [1..n -> entries] :
                  \A i \in 1..n, j \in 1..n : i < j => q[i].k # q[j].k},
        auth \in {PasswordAuth, nullptr}}

CreateBags ==
    AuthenticatorBags \cup EntryBags(ClusterEntries, 1)
        \cup UNION {EntryBags(OrderedEntries, n) : n \in 2..MaxEntries}

CreateNext ==
    \E connstr_error \in BOOLEAN, options \in CreateBags :
        create_connection_handle(connstr_error, options)

CreateSpec == Init /\ [][CreateNext]_vars

----------------------------------------------------------------------------
(* impl::cluster_version *)

\* the bucket names cluster_version is called with
BucketNames == {"", "travel"}

\* the codes and the node lists a cluster_describe_response carries
DescribeCodes == {"success", "service_not_available", "unambiguous_timeout"}
NodeVersions == {<<>>, <<"7.1.0">>, <<"7.1.0", "6.6.5">>}

\* a request handed to the engine, and the request once answered
Asked(kind) == [kind |-> kind, ec |-> "", nodes |-> <<>>]
AnsweredWith(kind, ec, nodes) == [kind |-> kind, ec |-> ec, nodes |-> nodes]

\* the last request of the log takes its answer
Answer(log, ec, nodes) == [log EXCEPT ![Len(log)] = AnsweredWith(@.kind, ec, nodes)]

\* a variant in which the fallback calls itself with the bucket name again
RetryNameSame(bucket_name) == bucket_name

\* return cluster_version(): the fallback runs with the default argument
RetryName(bucket_name) == ""

\* cluster_version(bucket_name) is entered: the describe request goes to the engine;
\* cluster_ is dereferenced without a test
VersionCall(bucket_name) ==
    /\ Running
    /\ hstate = "alive"
    /\ vpc \in {"idle", "returned"}
    /\ vcalls < MaxVersionCalls
    /\ IF cluster_ # "present"
       THEN /\ process' = "terminated"
            /\ UNCHANGED versionVars
       ELSE /\ vpc' = "describe"
            /\ vbucket' = bucket_name
            /\ vname' = bucket_name
            /\ vlog' = <<Asked("cluster_describe")>>
            /\ vret' = ""
            /\ vcalls' = vcalls + 1
            /\ UNCHANGED process
    /\ UNCHANGED <<hstate, createErr, cluster_, work_guard, worker, handleRef, workerRef, td,
                   tdThread, closeBarrier, trace, callVars, fop, fopts, fpc, freq, ferr,
                   freads, fsub, fresp, fid, fout, fctx, builderVars, createVars>>

\* f.get() returns the describe response
DescribeAnswered(ec, nodes) ==
    /\ Running
    /\ vpc = "describe"
    /\ IF ec = "service_not_available" /\ vname # ""
       THEN /\ vpc' = "bucket_open"
            /\ vlog' = Append(Answer(vlog, ec, nodes), Asked("open_bucket"))
            /\ UNCHANGED vret
       ELSE /\ vpc' = "returned"
            /\ vlog' = Answer(vlog, ec, nodes)
            /\ vret' = IF ec # "success" \/ nodes = <<>> THEN "" ELSE nodes[1]
    /\ UNCHANGED <<lifeVars, callVars, fop, fopts, fpc, freq, ferr, freads, fsub, fresp,
                   fid, fout, fctx, builderVars, vbucket, vname, vcalls,
                   createVars>>

\* bucket_open(bucket_name) returns
BucketOpenAnswered(ec) ==
    /\ Running
    /\ vpc = "bucket_open"
    /\ IF ec # "success"
       THEN /\ vpc' = "returned"
            /\ vlog' = Answer(vlog, ec, <<>>)
            /\ vret' = ""
            /\ UNCHANGED vname
       ELSE /\ vpc' = "describe"
            /\ vname' = RetryName(vname)
            /\ vlog' = Append(Answer(vlog, ec, <<>>), Asked("cluster_describe"))
            /\ UNCHANGED vret
    /\ UNCHANGED <<lifeVars, callVars, fop, fopts, fpc, freq, ferr, freads, fsub, fresp,
                   fid, fout, fctx, builderVars, vbucket, vcalls,
                   createVars>>

VersionNext ==
    \/ \E ce \in BOOLEAN, o \in ClusterBags, cr \in BOOLEAN : Create(ce, o, cr, TRUE)
    \/ \E bucket_name \in BucketNames : VersionCall(bucket_name)
    \/ \E ec \in DescribeCodes, nodes \in NodeVersions : DescribeAnswered(ec, nodes)
    \/ \E ec \in EngineCodes : BucketOpenAnswered(ec)

VersionSpec == Init /\ [][VersionNext]_vars

----------------------------------------------------------------------------
(* Teardown and the bridge: C1 .. C7 *)

TeardownOrder == <<"close", "fired", "observed", "join", "release">>

Count(seq, x) == Cardinality({i \in 1..Len(seq) : seq[i] = x})

Closed == td = "done" /\ cluster_ = "released" /\ worker = "joined" /\ closeBarrier = "set"

\* C1: teardown with an engine handle requests the close, sees its completion
\* fire, only then joins the worker, and only then releases the handle: the events
\* of a teardown are always an initial part of close, fired, observed, join, release
C1_TeardownOrder ==
    /\ Len(trace) <= Len(TeardownOrder)
    /\ trace = SubSeq(TeardownOrder, 1, Len(trace))
    /\ worker = "joined" => closeBarrier = "set"
    /\ cluster_ = "released" => worker = "joined"

C1_Witness == trace = TeardownOrder /\ cluster_ = "released"

\* C2: once the connection handle has given up the implementation of a started
\* connection, the connection eventually reaches the closed state
C2_EventuallyClosed ==
    (hstate = "destroyed" /\ cluster_ = "present") ~> Closed

C5_OneRequestOneCompletion ==
    \A c \in Callers :
        /\ cpc[c] \in {"waiting", "returned"} => subCount[call[c].req] = 1
        /\ cpc[c] = "returned" =>
              /\ delivered[call[c].req] # ""
              /\ ret[c].ec = delivered[call[c].req]

C5_Witness ==
    \E c \in Callers :
        /\ cpc[c] = "returned"
        /\ call[c].kind = "open"
        /\ ret[c].ec = "document_not_found"

\* C6: with several calls in flight, a promise only ever holds the response to the
\* request of its own call, a call whose completion is still outstanding has not been
\* woken, and a returned call returned the response to its own request
C6_OwnResponse ==
    \A c \in Callers :
        /\ barrier[c] # NoResp => barrier[c].req = call[c].req
        /\ (cpc[c] = "waiting" /\ delivered[call[c].req] = "") => barrier[c] = NoResp
        /\ cpc[c] = "returned" => ret[c].req = call[c].req

\* the second call completed and returned while the first is still in flight
C6_Witness ==
    /\ cpc["t1"] = "waiting" /\ call["t1"].req = 1 /\ delivered[1] = ""
    /\ cpc["t2"] = "returned" /\ call["t2"].req = 2 /\ ret["t2"].req = 2

\* C7: a bridged call returns only in a step taken after the engine delivered its
\* completion, and the code it returns is the delivered one: the bridge adds none
C7_NoSynthesizedOutcome ==
    [][\A c \in Callers :
          (cpc[c] = "waiting" /\ cpc'[c] = "returned") =>
              /\ delivered[call[c].req] # ""
              /\ ret'[c].ec = delivered[call[c].req]]_vars

C7_Witness ==
    \E c \in Callers :
        /\ cpc[c] = "returned"
        /\ call[c].kind = "key_value_execute"
        /\ ret[c].ec = "unambiguous_timeout"
        /\ delivered[call[c].req] = "unambiguous_timeout"

\* the keys of an operation in the order it decodes them: for search_index_upsert the
\* keys of the index definition come before the keys of the options
DecodeOrder(op) ==
    IF op = "search_index_upsert" THEN IndexKeys \o OptionKeys(op) ELSE OptionKeys(op)

\* the value the bags of a call hold for the i-th key of the order, nullptr for none
Given(op, in, i) ==
    IF op = "search_index_upsert" /\ i <= Len(IndexKeys)
    THEN zend_symtable_str_find(in.index, DecodeOrder(op)[i].k)
    ELSE zend_symtable_str_find(in.options, DecodeOrder(op)[i].k)

ContainerKinds == {"strings", "array", "tokens"}

\* a value of the wrong shape or type for a key of the kind
WrongType(kind, v) ==
    /\ ~IsNull(v)
    /\ CASE kind \in {"long", "enum"} -> v.t # "long"
         [] kind = "bool" -> v.t \notin {"true", "false"}
         [] kind \in {"string", "durability"} -> v.t # "string"
         [] kind \in ContainerKinds -> v.t # "array"
         [] OTHER -> FALSE

\* the i-th key of the order holds a value of the wrong type; the durability timeout
\* counts only beside a durability level other than none
Mistyped(op, in, i) ==
    /\ WrongType(DecodeOrder(op)[i].kind, Given(op, in, i))
    /\ DecodeOrder(op)[i].k = "durabilityTimeoutSeconds" =>
          LET level == zend_symtable_str_find(in.options, "durabilityLevel") IN
          level.t = "string" /\ level.s \in DurabilityLevels \ {"none"}

Position(op, k) == CHOOSE i \in 1..Len(DecodeOrder(op)) : DecodeOrder(op)[i].k = k

Returned == fpc = "returned"
ValidationError == Returned /\ ferr.origin = "validation"

\* C8: an operation that returned a validation error has submitted no request to
\* the engine, and a create_connection_handle that returned an error has made no
\* connection, started no worker and made no engine call
C8_ValidationBeforeEngine ==
    /\ ValidationError =>
          /\ fsub = 0
          /\ engine = {}
          /\ nextReq = 1
          /\ cpc[Facade] = "idle"
    /\ hstate = "failed" =>
          /\ createErr.ec \in {"invalid_argument", "parsing_failure"}
          /\ cluster_ = "none"
          /\ worker = "none"
          /\ ~handleRef /\ ~workerRef
          /\ engine = {} /\ nextReq = 1

\* an upsert whose last option is mistyped returned the error and submitted nothing
C8_Witness ==
    /\ ValidationError
    /\ fop = "document_upsert"
    /\ ferr.ec = "invalid_argument"
    /\ ferr.at = "expiry"
    /\ Len(freads) = 4
    /\ fsub = 0

\* C9: an operation that returned the validation error of one of its keys was given
\* no mistyped value for a key earlier in its order, and that key is the last it read
C9_FirstErrorWins ==
    (ValidationError /\ \E i \in 1..Len(DecodeOrder(fop)) : DecodeOrder(fop)[i].k = ferr.at) =>
        /\ \A i \in 1..Len(DecodeOrder(fop)) :
              Mistyped(fop, fopts, i) => Position(fop, ferr.at) <= i
        /\ freads # <<>>
        /\ freads[Len(freads)] = ferr.at

\* C10: once an operation was called with a value that is no array for one of its
\* sequence- or map-valued keys, or with a bag that is no array, it has returned
\* invalid_argument without a request to the engine, and its message names the key
\* when the bag holds no other key
C10_ContainerShape ==
    fpc # "idle" =>
        /\ \A i \in 1..Len(DecodeOrder(fop)) :
              (DecodeOrder(fop)[i].kind \in ContainerKinds /\ Mistyped(fop, fopts, i)) =>
                  /\ ValidationError
                  /\ ferr.ec = "invalid_argument"
                  /\ fsub = 0
                  /\ Len(fopts.options.a) = 1 => ferr.msg[2] = DecodeOrder(fop)[i].k
        /\ (~IsNull(fopts.options) /\ fopts.options.t # "array") =>
              /\ ValidationError
              /\ ferr.ec = "invalid_argument"
              /\ fsub = 0

\* the closed set of codes of an enumerated integer key
CodesOf(op, k) ==
    CASE k = "scanConsistency" -> IF op = "view_query" THEN {1, 2, 3} ELSE {1, 2}
      [] k = "profile" -> {1, 2, 3}
      [] k = "highlightStyle" -> {1, 2}
      [] k = "order" -> {0, 1}
      [] OTHER -> {}

\* the type of the values a key of the kind takes
TypesOf(kind) ==
    CASE kind \in {"long", "enum", "token_long"} -> {"long"}
      [] kind = "bool" -> {"true", "false"}
      [] kind \in {"string", "durability", "token_string"} -> {"string"}
      [] kind \in ContainerKinds -> {"array"}
      [] OTHER -> {"long", "true", "false", "string", "array", "double"}

ScalarKinds == {"long", "enum", "bool", "string", "durability"}

\* the i-th key of the order holds a value that some rule of the decoding could reject
Offending(op, in, i) ==
    LET key == DecodeOrder(op)[i]
        v == Given(op, in, i)
    IN  /\ ~IsNull(v)
        /\ \/ v.t \notin TypesOf(key.kind)
           \/ key.kind = "strings" /\ \E n \in 1..Len(v.a) : v.a[n].v.t # "string"
           \/ key.kind = "enum" /\ v.n \notin CodesOf(op, key.k)
           \/ key.kind = "durability" /\ v.s \notin DurabilityLevels

\* the arguments beside the option keys are acceptable
WellFormedCall ==
    /\ fpc # "idle"
    /\ fopts.index.t \in {"nullptr", "null", "array"}
    /\ fopts.options.t \in {"nullptr", "null", "array"}
    /\ fop = "view_query" => fopts.name_space \in {1, 2}

\* the i-th key is the only one of the call that holds an offending value
OnlyOffender(i) ==
    /\ WellFormedCall
    /\ Offending(fop, fopts, i)
    /\ \A j \in 1..Len(DecodeOrder(fop)) : j # i => ~Offending(fop, fopts, j)

NamesKey(k) ==
    /\ ValidationError
    /\ ferr.ec = "invalid_argument"
    /\ ferr.msg[2] = k
    /\ ferr.at = k

FieldOf(op, k) ==
    CASE k = "timeoutMilliseconds" -> "timeout"
      [] k = "durabilityLevel" -> "durability_level"
      [] k = "durabilityTimeoutSeconds" -> "durability_timeout"
      [] k = "preserveExpiry" -> "preserve_expiry"
      [] k = "withExpiry" -> "with_expiry"
      [] k = "scanConsistency" -> IF op = "view_query" THEN "consistency" ELSE "scan_consistency"
      [] k = "scanCap" -> "scan_cap"
      [] k = "pipelineCap" -> "pipeline_cap"
      [] k = "pipelineBatch" -> "pipeline_batch"
      [] k = "maxParallelism" -> "max_parallelism"
      [] k = "flexIndex" -> "flex_index"
      [] k = "adHoc" -> "adhoc"
      [] k = "positionalParameters" -> "positional_parameters"
      [] k = "namedParameters" -> "named_parameters"
      [] k = "consistentWith" -> "mutation_state"
      [] k = "clientContextId" -> "client_context_id"
      [] k = "scopeName" -> "scope_name"
      [] k = "bucketName" -> "bucket_name"
      [] k = "disableScoring" -> "disable_scoring"
      [] k = "includeLocations" -> "include_locations"
      [] k = "highlightFields" -> "highlight_fields"
      [] k = "sortSpecs" -> "sort_specs"
      [] k = "highlightStyle" -> "highlight_style"
      [] k = "groupLevel" -> "group_level"
      [] k = "startKey" -> "start_key"
      [] k = "endKey" -> "end_key"
      [] k = "startKeyDocId" -> "start_key_doc_id"
      [] k = "endKeyDocId" -> "end_key_doc_id"
      [] k = "inclusiveEnd" -> "inclusive_end"
      [] k = "params" -> "params_json"
      [] k = "sourceUuid" -> "source_uuid"
      [] k = "sourceName" -> "source_name"
      [] k = "sourceType" -> "source_type"
      [] k = "sourceParams" -> "source_params_json"
      [] OTHER -> k

\* the value a field has in the freshly constructed request
FreshValue(op, field) ==
    IF op = "document_get" /\ field = "with_expiry" THEN ZFalse
    ELSE IF op = "document_get" /\ field = "projections" THEN ZArr(<<>>)
    ELSE Default

RecognizedKinds == ScalarKinds \cup ContainerKinds

\* the operation has finished decoding its options without a fault
Decoded == fpc \in {"submitted", "returned"}

\* C12: after an operation has decoded a bag in which one of its keys is absent or
\* null, the error returned (if any) is not of that key and the field of that key
\* holds the value of the fresh request
C12_AbsentKeepsDefault ==
    Decoded =>
        \A i \in 1..Len(DecodeOrder(fop)) :
            (DecodeOrder(fop)[i].kind \in RecognizedKinds /\ IsNull(Given(fop, fopts, i))) =>
                /\ ferr.at # DecodeOrder(fop)[i].k
                /\ FieldOf(fop, DecodeOrder(fop)[i].k) \in DOMAIN freq =>
                      freq[FieldOf(fop, DecodeOrder(fop)[i].k)]
                          = FreshValue(fop, FieldOf(fop, DecodeOrder(fop)[i].k))

\* the closed set of an enumerated key with its enumerators
EnumTable(op, k) ==
    CASE k = "scanConsistency" ->
            IF op = "view_query" THEN ViewScanConsistency
            ELSE IF op = "analytics_query" THEN AnalyticsScanConsistency
            ELSE QueryScanConsistency
      [] k = "profile" -> QueryProfile
      [] k = "highlightStyle" -> HighlightStyle
      [] k = "order" -> SortOrder

\* the call returned an invalid_argument error of the key k whose message holds `received`
RejectsValue(k, received) ==
    ValidationError /\ ferr.ec = "invalid_argument" /\ ferr.at = k /\ ferr.msg[2] = received

\* the integer-coded keys: a code outside the set is rejected with the code in the message,
\* a code of the set sets the field to its enumerator
EnumCodesClosed ==
    \A i \in 1..Len(DecodeOrder(fop)) :
        (DecodeOrder(fop)[i].kind = "enum" /\ Given(fop, fopts, i).t = "long") =>
            LET k == DecodeOrder(fop)[i].k
                n == Given(fop, fopts, i).n
                table == EnumTable(fop, k)
            IN  /\ (n \notin DOMAIN table /\ OnlyOffender(i)) => RejectsValue(k, ToString(n))
                /\ (n \in DOMAIN table /\ Decoded /\ ~ValidationError) =>
                       freq[FieldOf(fop, k)] = Enum(table[n])

\* durabilityLevel: a string outside the set is rejected with the string in the message, a
\* string of the set sets the level
DurabilityLevelClosed ==
    \A i \in 1..Len(DecodeOrder(fop)) :
        (DecodeOrder(fop)[i].kind = "durability" /\ Given(fop, fopts, i).t = "string") =>
            LET v == Given(fop, fopts, i).s
            IN  /\ (v \notin DurabilityLevels /\ OnlyOffender(i)) => RejectsValue("durabilityLevel", v)
                /\ (v \in DurabilityLevels /\ Decoded /\ ~ValidationError) =>
                       freq["durability_level"] = DurabilityEnumerator(v)

\* the namespace argument of a view query
NameSpaceClosed ==
    fop = "view_query" =>
        /\ fopts.name_space \notin DOMAIN NameSpaces =>
               /\ ValidationError
               /\ ferr.ec = "invalid_argument"
               /\ ferr.msg[2] = ToString(fopts.name_space)
        /\ (fopts.name_space \in DOMAIN NameSpaces /\ Decoded) =>
               freq["name_space"] = Enum(NameSpaces[fopts.name_space])

\* C13: every enumerated option is matched against its closed set: a present value of the
\* right type outside the set makes the operation fail with invalid_argument and a message
\* holding the received value, and a value of the set sets the field to its enumerator
C13_EnumClosedSet ==
    fpc # "idle" => EnumCodesClosed /\ DurabilityLevelClosed /\ NameSpaceClosed

\* the decoding has looked the key up in the bag
InReads(k) == \E n \in 1..Len(freads) : freads[n] = k

MajorityExample ==
    ZArr(<<KV("timeoutMilliseconds", ZLong(2500)), KV("durabilityLevel", ZStr("majority"))>>)

\* C14: when document_upsert has decoded the durability keys, the durability timeout is
\* set exactly if durabilityLevel holds a recognized level other than none and
\* durabilityTimeoutSeconds holds an integer; beside the level none the key
\* durabilityTimeoutSeconds is not read, sets nothing and gives no error; the bag
\* {timeoutMilliseconds: 2500, durabilityLevel: "majority"} gives timeout 2500, level
\* majority and no durability timeout
C14_DurabilityGate ==
    (fop = "document_upsert" /\ Decoded /\ InReads("durabilityLevel")) =>
        LET level == zend_symtable_str_find(fopts.options, "durabilityLevel")
            seconds == zend_symtable_str_find(fopts.options, "durabilityTimeoutSeconds")
        IN  /\ freq["durability_timeout"] # Default <=>
                  /\ level.t = "string"
                  /\ level.s \in DurabilityLevels \ {"none"}
                  /\ seconds.t = "long"
            /\ freq["durability_timeout"] # Default => freq["durability_timeout"] = seconds
            /\ (level.t = "string" /\ level.s = "none") =>
                  /\ ~InReads("durabilityTimeoutSeconds")
                  /\ freq["durability_timeout"] = Default
                  /\ ferr.at # "durabilityTimeoutSeconds"
            /\ fopts.options = MajorityExample =>
                  /\ ~ValidationError
                  /\ freq["timeout"] = ZLong(2500)
                  /\ freq["durability_level"] = DurabilityEnumerator("majority")
                  /\ freq["durability_timeout"] = Default

C14_Witness ==
    /\ fop = "document_upsert"
    /\ fpc = "submitted"
    /\ fopts.options = ZArr(<<KV("durabilityLevel", ZStr("none")),
                              KV("durabilityTimeoutSeconds", ZStr("x"))>>)
    /\ freq["durability_level"] = DurabilityEnumerator("none")

\* a bag without the key k
RECURSIVE Strip(_, _, _)
Strip(a, k, i) ==
    IF i > Len(a) THEN <<>>
    ELSE (IF a[i].k = k THEN <<>> ELSE <<a[i]>>) \o Strip(a, k, i + 1)

Without(in, k) ==
    [in EXCEPT !.options = IF @.t = "array" THEN ZArr(Strip(@.a, k, 1)) ELSE @]

\* the keys of the bags that are no option of the operation itself
UnrecognizedKinds == {"other", "token_long", "token_string"}

\* the outcome of the decoding the state records is the outcome d
SameOutcome(d) ==
    /\ d.fault <=> fpc = "fault"
    /\ d.req = freq
    /\ d.err = ferr

\* the call has decoded its bags and nothing has come back from the engine
JustDecoded == fpc \in {"fault", "submitted"} \/ ValidationError

\* C15: the decoding is a function of the bag alone, and a key the operation does not
\* recognize has no effect: the request and the outcome of a call are those of decoding
\* the same bag again on a fresh request, and those of decoding the bag without any one of
\* its unrecognized keys
C15_UnknownKeyNoEffect ==
    JustDecoded =>
        /\ SameOutcome(Decode(fop, fopts))
        /\ \A i \in 1..Len(DecodeOrder(fop)) :
              (DecodeOrder(fop)[i].kind \in UnrecognizedKinds /\ Given(fop, fopts, i) # nullptr) =>
                  SameOutcome([Decode(fop, Without(fopts, DecodeOrder(fop)[i].k))
                                   EXCEPT !.reads = freads])

Subsystems == {"key_value", "query", "analytics", "view", "search", "http"}

\* the subsystem whose error context the errors of a bridged call are to carry; a call
\* that belongs to no single subsystem may carry any of them
SubsystemsOf(kind) ==
    CASE kind = "key_value_execute" -> {"key_value"}
      [] kind = "query" -> {"query"}
      [] kind = "analytics_query" -> {"analytics"}
      [] kind = "view_query" -> {"view"}
      [] kind = "search_query" -> {"search"}
      [] kind = "search_index_upsert" -> {"http"}
      [] OTHER -> Subsystems

\* C18: a bridged call that has returned the error of a failing engine response carries
\* the error context of its subsystem, and a call that has returned success carries none
C18_ErrorCarriesContext ==
    \A c \in Callers :
        cpc[c] = "returned" =>
            /\ ret[c].ec # "success" => ret[c].ctx \in SubsystemsOf(call[c].kind)
            /\ ret[c].ec = "success" => ret[c].ctx = "none"

\* the operation has returned after the engine answered its request
Answered == fpc = "returned" /\ fresp # NoResp

\* C16: document_exists whose response carries document_not_found has returned no error
\* and an output with exists = false; for any other failing status it has returned the
\* error of that status and no output; every other operation has returned the error of
\* every failing status, with no output
C16_ExistsNotFound ==
    Answered =>
        /\ (fop = "document_exists" /\ fresp.ec = "document_not_found") =>
              /\ ferr = NoErr
              /\ fout.t = "array"
              /\ zend_symtable_str_find(fout, "exists") = ZFalse
        /\ (fresp.ec # "success" /\ ~(fop = "document_exists" /\ fresp.ec = "document_not_found")) =>
              /\ ferr.ec = fresp.ec
              /\ fout = Unset

C16_Witness ==
    /\ Answered
    /\ fop = "document_exists"
    /\ fresp.ec = "document_not_found"
    /\ ferr.ec = "success"
    /\ zend_symtable_str_find(fout, "exists") = ZFalse

Copied(group, m) == IF group = None THEN None ELSE Some(group[1][m])

\* C19: the key-value builder completes for every combination of the optional groups and
\* its output holds every field of the source unchanged: the error-map name and
\* description from the error-map info, the enhanced-error reference and context from the
\* enhanced-error info, each absent when its group is absent
C19_KeyValueContextCopied ==
    bctx.kind = "key_value" =>
        /\ ~bout.fault
        /\ bout.bucket = bctx.id.bucket
        /\ bout.scope = bctx.id.scope
        /\ bout.collection = bctx.id.collection
        /\ bout.id = bctx.id.key
        /\ bout.opaque = bctx.opaque
        /\ bout.cas = bctx.cas
        /\ bout.status_code = bctx.status_code
        /\ bout.error_map_name = Copied(bctx.error_map_info, "name")
        /\ bout.error_map_description = Copied(bctx.error_map_info, "description")
        /\ bout.enhanced_error_reference = Copied(bctx.enhanced_error_info, "reference")
        /\ bout.enhanced_error_context = Copied(bctx.enhanced_error_info, "context")
        /\ bout.last_dispatched_to = bctx.last_dispatched_to
        /\ bout.last_dispatched_from = bctx.last_dispatched_from

\* the name n is the name of the reason: the enumerator's own, or the fallback for a value
\* that is no enumerator
NameOfReason(reason, n) ==
    IF reason \in RetryReason THEN "io::retry_reason::" \o n = reason ELSE n = "unexpected"

\* C20: in the output of each of the six builders the retry attempts are those of the
\* source and the retry reasons are the names of the reasons of the source: every
\* enumerator gives its own name, two enumerators give two names, and a value outside the
\* enumeration gives "unexpected"
C20_RetryReasons ==
    (bctx.kind # "none" /\ ~bout.fault) =>
        /\ bout.retry_attempts = bctx.retry_attempts
        /\ \A reason \in bctx.retry_reasons :
              \E n \in bout.retry_reasons : NameOfReason(reason, n)
        /\ \A n \in bout.retry_reasons :
              \E reason \in bctx.retry_reasons : NameOfReason(reason, n)
        /\ Cardinality(bout.retry_reasons) = Cardinality(bctx.retry_reasons)

C20_Witness ==
    /\ bctx.kind = "http"
    /\ bctx.retry_attempts = 1
    /\ bctx.retry_reasons = {"io::retry_reason::kv_locked", OutOfRange}
    /\ bout.retry_reasons = {"kv_locked", "unexpected"}

\* the requests of the kind in the log of the running cluster_version call
Asks(kind) == {i \in 1..Len(vlog) : vlog[i].kind = kind}

\* the last describe request of the log
LastDescribe == vlog[CHOOSE i \in Asks("cluster_describe") : \A j \in Asks("cluster_describe") : j <= i]

\* C21: a cluster_version call submits at most two describe requests and at most one
\* bucket-open; the bucket-open comes only after a first describe that failed with
\* service_not_available for a non-empty bucket name, the second describe only after that
\* bucket-open succeeded; the call returns the empty version when the bucket-open failed
\* or the last describe carries an error or no node, and else the version of the first node
C21_VersionFallbackOnce ==
    vpc # "idle" =>
        /\ Cardinality(Asks("cluster_describe")) <= 2
        /\ Cardinality(Asks("open_bucket")) <= 1
        /\ vlog[1].kind = "cluster_describe"
        /\ Asks("open_bucket") # {} =>
              /\ Asks("open_bucket") = {2}
              /\ vbucket # ""
              /\ vlog[1].ec = "service_not_available"
        /\ Cardinality(Asks("cluster_describe")) = 2 =>
              /\ Asks("cluster_describe") = {1, 3}
              /\ vlog[2].kind = "open_bucket"
              /\ vlog[2].ec = "success"
        /\ vpc = "returned" =>
              /\ Running
              /\ vret = IF vlog[Len(vlog)].kind = "open_bucket"
                           \/ LastDescribe.ec # "success"
                           \/ LastDescribe.nodes = <<>>
                        THEN ""
                        ELSE LastDescribe.nodes[1]

C21_Witness ==
    /\ vpc = "returned"
    /\ vbucket = "travel"
    /\ Len(vlog) = 3
    /\ vlog[1].ec = "service_not_available"
    /\ vlog[2].ec = "success"
    /\ vlog[3].ec = "success"
    /\ vret = "7.1.0"

\* what a bag holds for a key, nullptr when the bag is no array
Option(k) ==
    IF fopts.options.t = "array" THEN zend_symtable_str_find(fopts.options, k) ELSE nullptr

\* document_get has chosen the request it makes
ShapeChosen == "shape" \in DOMAIN freq

\* the call has handed its request to the engine
Submitted == fpc = "submitted" \/ Answered

\* C22: a document_get that passes validation submits exactly one request; the request is
\* the plain get exactly if withExpiry is false or absent and projections is absent or
\* empty, and else the projected get carrying the flag and the list; the request is chosen
\* before timeoutMilliseconds is looked up and the timeout is put into the chosen request
C22_GetShape ==
    (fop = "document_get" /\ fpc \notin {"idle", "fault"}) =>
        /\ InReads("timeoutMilliseconds") =>
              /\ ShapeChosen
              /\ freads = <<"withExpiry", "projections", "timeoutMilliseconds">>
        /\ ShapeChosen =>
              /\ freq["shape"] = Enum("get_request") <=>
                    /\ Option("withExpiry").t # "true"
                    /\ Items(Option("projections")) = <<>>
              /\ freq["shape"] # Enum("get_request") =>
                    /\ freq["shape"] = Enum("get_projected_request")
                    /\ freq["with_expiry"] = IF Option("withExpiry").t = "true" THEN ZTrue ELSE ZFalse
                    /\ freq["projections"] = ZArr(Items(Option("projections")))
        /\ Submitted =>
              /\ ShapeChosen
              /\ subCount[call[Facade].req] = 1
              /\ Cardinality({r \in 1..MaxReq : subCount[r] > 0}) = 1
              /\ freq["timeout"] = IF Option("timeoutMilliseconds").t = "long"
                                   THEN Option("timeoutMilliseconds") ELSE Default

C22_Witness ==
    /\ fop = "document_get"
    /\ fpc = "submitted"
    /\ Option("withExpiry") = ZFalse
    /\ Option("timeoutMilliseconds") = ZLong(2500)
    /\ freq["shape"] = Enum("get_request")
    /\ freq["timeout"] = ZLong(2500)

\* what an output array holds under a name, nullptr when it has no such entry
Out(name) == IF fout.t = "array" THEN zend_symtable_str_find(fout, name) ELSE nullptr

\* C23: a successful document_upsert returns no error and an output with the cas; the
\* output has a mutationToken exactly if the token of the response has a non-empty bucket
\* name and a partition uuid above 0, and it is then the wire form of that token
C23_MutationToken ==
    (Answered /\ fop = "document_upsert" /\ fresp.ec = "success") =>
        /\ ferr = NoErr
        /\ Out("cas") = Field("cas")
        /\ Out("mutationToken") # nullptr <=>
              (fresp.token.bucket_name # "" /\ fresp.token.partition_uuid > 0)
        /\ Out("mutationToken") # nullptr =>
              /\ zend_symtable_str_find(Out("mutationToken"), "bucketName")
                    = ZStr(fresp.token.bucket_name)
              /\ zend_symtable_str_find(Out("mutationToken"), "partitionId")
                    = ZLong(fresp.token.partition_id)
              /\ zend_symtable_str_find(Out("mutationToken"), "partitionUuid") = ZStr("1a")
              /\ zend_symtable_str_find(Out("mutationToken"), "sequenceNumber") = ZStr("ff")

C23_Witness ==
    /\ Answered
    /\ fop = "document_upsert"
    /\ fresp.ec = "success"
    /\ fresp.token.bucket_name = "travel"
    /\ fresp.token.partition_uuid = 0
    /\ ferr = NoErr
    /\ Out("cas") = Field("cas")
    /\ Out("mutationToken") = nullptr

\* the i-th token of the request's mutation state has the values of the i-th record
TokenOfRecord(token, record) ==
    \A i \in 1..Len(TokenFields) :
        zend_symtable_str_find(token, TokenFields[i].f)
            = zend_symtable_str_find(record, TokenFields[i].k)

\* C24: a query or search_query given a sequence of k token records as consistentWith
\* submits a request whose mutation state holds k tokens, the i-th with the bucketName,
\* partitionId, partitionUuid and sequenceNumber of the i-th record
C24_TokensFromRecords ==
    (fop \in {"query", "search_query"} /\ Submitted
        /\ Option("consistentWith").t = "array") =>
        /\ Len(freq["mutation_state"].a) = Len(Option("consistentWith").a)
        /\ \A i \in 1..Len(Option("consistentWith").a) :
              TokenOfRecord(freq["mutation_state"].a[i].v, Option("consistentWith").a[i].v)

\* the call of create_connection_handle has been made with a connection string that parses
Created == copts # nullptr /\ ~copts.connstr_error

\* what the cluster options hold under authenticator
Auth == IF copts.options.t = "array"
        THEN zend_symtable_str_find(copts.options, "authenticator") ELSE nullptr

AuthField(k) == IF Auth.t = "array" THEN zend_symtable_str_find(Auth, k) ELSE nullptr

PasswordComplete ==
    /\ AuthField("type") = ZStr("password")
    /\ AuthField("username").t = "string"
    /\ AuthField("password").t = "string"
    /\ AuthField("allowedSaslMechanisms").t \in {"nullptr", "null", "array"}

CertificateComplete ==
    /\ AuthField("type") = ZStr("certificate")
    /\ AuthField("certificatePath").t = "string"
    /\ AuthField("keyPath").t = "string"

\* no connection_handle was constructed
NoConnection ==
    /\ hstate # "alive"
    /\ worker = "none"
    /\ cluster_ = "none"

\* C25: create_connection_handle makes a connection only for cluster options whose
\* authenticator is a complete password authenticator (string username and password, the
\* mechanism list absent, null or an array) or a complete certificate authenticator (string
\* certificatePath and keyPath); for any other options it returns invalid_argument and
\* makes no connection
C25_AuthenticatorShape ==
    Created =>
        /\ hstate = "alive" => (PasswordComplete \/ CertificateComplete)
        /\ ~(PasswordComplete \/ CertificateComplete) =>
              /\ process = "running"
              /\ hstate = "failed"
              /\ createErr.ec = "invalid_argument"
              /\ NoConnection

\* the entries of the cluster options given
Entries == IF copts.options.t = "array" THEN copts.options.a ELSE <<>>

ClusterKeys ==
    DurationKeys \cup NumberKeys \cup BooleanKeys \cup StringKeys
        \cup {"tlsVerify", "thresholdLoggingTracerOptions", "loggingMeterOptions"}

\* a non-null value the claim calls invalid for a cluster key
BadValue(k, v) ==
    \/ k \in DurationKeys /\ (v.t # "long" \/ v.n < 0)
    \/ k \in NumberKeys /\ v.t # "long"
    \/ k \in BooleanKeys /\ v.t \notin {"true", "false"}
    \/ k \in StringKeys /\ (v.t # "string" \/ v.s = "")
    \/ k = "tlsVerify" /\ v \notin {ZStr("peer"), ZStr("none")}
    \/ k \in {"thresholdLoggingTracerOptions", "loggingMeterOptions"} /\ v.t # "array"

BadEntry(e) == e.k \in ClusterKeys /\ e.v.t # "null" /\ BadValue(e.k, e.v)

\* the keys of a sub-bag and the prefix of the fields they set
SubKeys(k) ==
    IF k = "thresholdLoggingTracerOptions"
    THEN [prefix |-> "tracing_options", durations |-> TracerDurationKeys,
          numbers |-> TracerNumberKeys]
    ELSE [prefix |-> "metrics_options", durations |-> MeterDurationKeys, numbers |-> {}]

BadNested(k, e) ==
    /\ e.v.t # "null"
    /\ \/ e.k \in SubKeys(k).durations /\ (e.v.t # "long" \/ e.v.n < 0)
       \/ e.k \in SubKeys(k).numbers /\ e.v.t # "long"

\* a sub-bag with an invalid entry in it
BadInside(e) ==
    /\ e.k \in {"thresholdLoggingTracerOptions", "loggingMeterOptions"}
    /\ e.v.t = "array"
    /\ \E j \in 1..Len(e.v.a) : BadNested(e.k, e.v.a[j])

\* the position of the first invalid entry, one past the end if there is none
FirstBad ==
    LET bad == {i \in 1..Len(Entries) : BadEntry(Entries[i]) \/ BadInside(Entries[i])}
    IN  IF bad = {} THEN Len(Entries) + 1
        ELSE CHOOSE i \in bad : \A j \in bad : i <= j

\* connstr.options has the field written with the value
Written(prefix, k, v) ==
    \E i \in 1..Len(corigin.set) : corigin.set[i] = [field |-> <<prefix, k>>, v |-> v]

Touched(prefix, k) ==
    \E i \in 1..Len(corigin.set) : corigin.set[i].field = <<prefix, k>>

\* every recognized non-null key of the entry has set its field
Applied(e) ==
    IF e.k \notin ClusterKeys \/ e.v.t = "null" THEN TRUE
    ELSE IF e.k \in {"thresholdLoggingTracerOptions", "loggingMeterOptions"}
    THEN \A j \in 1..Len(e.v.a) :
            (e.v.a[j].k \in SubKeys(e.k).durations \cup SubKeys(e.k).numbers
                /\ e.v.a[j].v.t # "null") =>
                Written(SubKeys(e.k).prefix, e.v.a[j].k, e.v.a[j].v)
    ELSE Written("options", e.k, e.v)

\* no key of the entry has set a field
NotApplied(e) ==
    IF e.k \in {"thresholdLoggingTracerOptions", "loggingMeterOptions"}
    THEN e.v.t = "array" =>
            \A j \in 1..Len(e.v.a) : ~Touched(SubKeys(e.k).prefix, e.v.a[j].k)
    ELSE ~Touched("options", e.k)

\* the options without their i-th entry
Dropped(i) == ZArr(SubSeq(Entries, 1, i - 1) \o SubSeq(Entries, i + 1, Len(Entries)))

\* C27: apply_options walks the entries in order; at the first invalid entry it returns
\* invalid_argument naming the key, with the entries before it applied and the entries
\* after it not applied; a recognized key with a null value sets nothing, an unrecognized
\* key changes nothing of the outcome, and a bag with no invalid entry sets the field of
\* every recognized non-null key, those of the tracer and meter sub-bags included
C27_ApplyOptionsOrder ==
    (Created /\ copts.options.t = "array") =>
        /\ FirstBad <= Len(Entries) =>
              /\ process = "running"
              /\ createErr.ec = "invalid_argument"
              /\ BadEntry(Entries[FirstBad]) => createErr.at = Entries[FirstBad].k
              /\ \A i \in (FirstBad + 1)..Len(Entries) : NotApplied(Entries[i])
        /\ \A i \in 1..Len(Entries) :
              /\ i < FirstBad => Applied(Entries[i])
              /\ (Entries[i].k \in ClusterKeys /\ Entries[i].v.t = "null") =>
                    NotApplied(Entries[i])
              /\ Entries[i].k \notin ClusterKeys \cup {"authenticator"} =>
                    corigin = Validated(FALSE, Dropped(i))
        /\ FirstBad > Len(Entries) =>
              /\ process = "running"
              /\ createErr.at \notin ClusterKeys
              /\ PasswordComplete => hstate = "alive"

\* the per-operation decoder of a type, run on an option bag for a field of that type
OperationDecoder(type, options) ==
    LET d == Dec([timeout |-> Default, field |-> Default], NoErr, <<>>, FALSE) IN
    CASE type = "duration" -> cb_assign_timeout(d, options)
      [] type = "integer" -> cb_assign_integer(d, "field", options, "key")
      [] type = "boolean" -> cb_assign_boolean(d, "field", options, "key")
      [] type = "string" -> cb_assign_string(d, "field", options, "key")

OperationKey(type) == IF type = "duration" THEN "timeoutMilliseconds" ELSE "key"

OperationRejects(type, options) == OperationDecoder(type, options).err.ec = "invalid_argument"

\* the type of the field a cluster key sets
TypeOfKey(k) ==
    CASE k \in DurationKeys -> "duration"
      [] k \in NumberKeys -> "integer"
      [] k \in BooleanKeys -> "boolean"
      [] k \in StringKeys -> "string"

TypedKeys == DurationKeys \cup NumberKeys \cup BooleanKeys \cup StringKeys

\* the cluster options are one entry of a typed key, or that and the authenticator
OneTyped ==
    /\ Len(Entries) \in {1, 2}
    /\ Entries[1].k \in TypedKeys
    /\ Len(Entries) = 2 => Entries[2].k = "authenticator"

\* C26: the decoder of the cluster options and the decoders of the operations accept and
\* reject the same: a bag that is null or no array, and a value of a duration, integer,
\* boolean or string field (negative durations, empty strings and null values among them),
\* is rejected with invalid_argument by the one exactly if it is by the other
C26_SameTypeRules ==
    Created =>
        /\ copts.options.t # "array" =>
              \A type \in {"duration", "integer", "boolean", "string"} :
                  (createErr.ec = "invalid_argument") <=> OperationRejects(type, copts.options)
        /\ (copts.options.t = "array" /\ OneTyped) =>
              ((createErr.ec = "invalid_argument" /\ createErr.at = Entries[1].k)
                <=> OperationRejects(TypeOfKey(Entries[1].k),
                                     ZArr(<<KV(OperationKey(TypeOfKey(Entries[1].k)),
                                               Entries[1].v)>>)))

\* the caller's open has returned an error
FailedOpen(c) == cpc[c] = "returned" /\ call[c].kind = "open" /\ ret[c].ec # "success"

\* the step in which the caller's open returns an error
OpenFails(c) ==
    /\ cpc[c] = "waiting"
    /\ call[c].kind = "open"
    /\ cpc'[c] = "returned"
    /\ ret'[c].ec # "success"

C29_TeardownNotOnWorker == tdThread # "worker"

\* the call is one that goes through when it is made with a bag that has no entry
OtherwiseValid ==
    /\ fpc # "idle"
    /\ ~Stop(Decode(fop, [fopts EXCEPT !.options = ZArr(<<>>)]))

\* C30: an operation called with options null (and arguments that are valid otherwise)
\* decodes without error and without fault, leaves the request as it is made for a bag
\* with no entry, and submits it to the engine
C30_NullBagAccepted ==
    (OtherwiseValid /\ fopts.options = nullptr) =>
        /\ fpc # "fault"
        /\ process = "running"
        /\ ~ValidationError
        /\ Submitted
        /\ fsub = 1
        /\ freq = Decode(fop, [fopts EXCEPT !.options = ZArr(<<>>)]).req

====
